---- MODULE Spec2Model ----
(***************************************************************************)
(* Model of the background job scheduler of the Ascentrade backend         *)
(* (src/tasks.py, class TaskHandler) together with the part of the         *)
(* application life cycle that drives it (src/application.py, lifespan).   *)
(*                                                                         *)
(* The asyncio event loop is single threaded: a coroutine runs until it    *)
(* really suspends.  asyncio.Queue() is unbounded, so put() never          *)
(* suspends, and get() on a non-empty queue never suspends; the only       *)
(* suspension point of scheduleTasks is asyncio.sleep(5).  addJob,         *)
(* loadJobs and shutdown therefore run atomically and only while the       *)
(* scheduling coroutine is parked at its sleep.  Worker processes are OS   *)
(* processes and may exit at any moment, also in the middle of a tick.     *)
(***************************************************************************)
EXTENDS Integers, Sequences, FiniteSets, TLC

(***************************************************************************)
(* Bounds of the model.                                                    *)
(***************************************************************************)
MaxJobs == 3
MaxRestarts == 1
MaxCpu == 4

(***************************************************************************)
(* Python values (None, int, str, dict) and JSON values (null, number,     *)
(* string, object).  All values share one record shape.                    *)
(***************************************************************************)
PyNone == [ty |-> "NoneType", n |-> 0, s |-> "", d |-> {}]
PyInt(i) == [ty |-> "int", n |-> i, s |-> "", d |-> {}]
PyStr(x) == [ty |-> "str", n |-> 0, s |-> x, d |-> {}]
PyDict(kv) == [ty |-> "dict", n |-> 0, s |-> "", d |-> kv]

JNull == [ty |-> "null", n |-> 0, s |-> "", d |-> {}]
JNum(i) == [ty |-> "number", n |-> i, s |-> "", d |-> {}]
JString(x) == [ty |-> "string", n |-> 0, s |-> x, d |-> {}]
JObject(kv) == [ty |-> "object", n |-> 0, s |-> "", d |-> kv]

\* json.JSONEncoder on the values a job holds.
ToJson(v) ==
    CASE v.ty = "NoneType" -> JNull
      [] v.ty = "int" -> JNum(v.n)
      [] v.ty = "str" -> JString(v.s)
      [] v.ty = "dict" -> JObject(v.d)

\* json.loads on one JSON value.
FromJson(j) ==
    CASE j.ty = "null" -> PyNone
      [] j.ty = "number" -> PyInt(j.n)
      [] j.ty = "string" -> PyStr(j.s)
      [] j.ty = "object" -> PyDict(j.d)

(***************************************************************************)
(* BackgroundJobData                                                       *)
(***************************************************************************)
JobFields == {"timestamp", "uuid", "table", "id1", "id2", "date1", "date2", "data"}

\* str(uuid4()) of the k-th job created: a fresh string per creation.
UuidStr(k) == <<"u1", "u2", "u3", "u4", "u5", "u6", "u7", "u8">>[k]

\* int(datetime.utcnow().timestamp()) at the k-th creation.
UtcNow(k) == 1700000000 + k

\* BackgroundJobData.__init__ with the defaults of its signature made
\* explicit; k numbers the creation (clock reading and uuid4 draw).
BackgroundJobData(table, id1, id2, date1, date2, data, timestamp, uuid, k) ==
    [ table |-> table,
      id1 |-> id1,
      id2 |-> id2,
      date1 |-> date1,
      date2 |-> date2,
      data |-> data,
      timestamp |-> IF timestamp # PyNone THEN timestamp ELSE PyInt(UtcNow(k)),
      uuid |-> IF uuid # PyNone THEN uuid ELSE PyStr(UuidStr(k)) ]

\* The mutation resolver's BackgroundJobData(table, id): every other argument
\* takes its default.
NewJob(table, id, k) ==
    BackgroundJobData(PyStr(table), PyInt(id), PyNone, PyNone, PyNone,
                      PyDict({}), PyNone, PyNone, k)

\* fromDict that forgets the identity fields, so the constructor draws new ones.
FromDictFreshIdentity(dictIn, k) ==
    BackgroundJobData(FromJson(dictIn["table"]), FromJson(dictIn["id1"]),
                      FromJson(dictIn["id2"]), FromJson(dictIn["date1"]),
                      FromJson(dictIn["date2"]), FromJson(dictIn["data"]),
                      PyNone, PyNone, k)

\* BackgroundJobData.fromDict on a decoded JSON object that has all keys.
FromDict(dictIn, k) ==
    BackgroundJobData(FromJson(dictIn["table"]), FromJson(dictIn["id1"]),
                      FromJson(dictIn["id2"]), FromJson(dictIn["date1"]),
                      FromJson(dictIn["date2"]), FromJson(dictIn["data"]),
                      FromJson(dictIn["timestamp"]), FromJson(dictIn["uuid"]), k)

\* dictIn[...] raises KeyError when a key is missing.
FromDictRaises(dictIn) == ~(JobFields \subseteq DOMAIN dictIn)

\* EnhancedJSONEncoder.default: dataclasses.asdict, then the stock encoder.
EncodeJob(job) == [f \in JobFields |-> ToJson(job[f])]

(***************************************************************************)
(* The backup file jobs.json                                               *)
(***************************************************************************)
JArray(items) == [ty |-> "array", items |-> items]
JNullDoc == [ty |-> "null", items |-> <<>>]

FileMissing == [kind |-> "missing", doc |-> JNullDoc]
FileEmpty == [kind |-> "empty", doc |-> JNullDoc]
FileGarbage == [kind |-> "garbage", doc |-> JNullDoc]
FileJson(doc) == [kind |-> "json", doc |-> doc]

\* Entries a backup file may hold at start-up: two complete job objects and
\* one object with fields missing.
StoredEntryA ==
    [ timestamp |-> JNum(1699999990), uuid |-> JString("f1"),
      table |-> JString("quotes"), id1 |-> JNum(2), id2 |-> JNum(5),
      date1 |-> JString("2024-01-02"), date2 |-> JNull,
      data |-> JObject({<<"k", 1>>}) ]
StoredEntryB ==
    [ timestamp |-> JNum(1699999991), uuid |-> JString("f2"),
      table |-> JString("securities"), id1 |-> JNum(1), id2 |-> JNull,
      date1 |-> JNull, date2 |-> JNull, data |-> JObject({}) ]
StoredEntryMalformed == [table |-> JString("quotes"), id1 |-> JNum(1)]

InitialBackupFiles ==
    { FileMissing, FileEmpty, FileGarbage, FileJson(JNullDoc),
      FileJson(JArray(<<>>)),
      FileJson(JArray(<<StoredEntryA, StoredEntryB>>)),
      FileJson(JArray(<<StoredEntryA, StoredEntryMalformed>>)) }

\* json.dumps(jobs, cls=EnhancedJSONEncoder): the list, entry by entry.
DumpJobs(jobs) == [i \in 1..Len(jobs) |-> EncodeJob(jobs[i])]

\* A write that keeps the entries the file already held in front of the new ones.
WriteBackupKeepsOld(file, jobs, io) ==
    CASE io = "open_error" -> file
      [] io = "write_error" -> FileEmpty
      [] io = "ok" ->
           FileJson(JArray((IF file.kind = "json" /\ file.doc.ty = "array"
                            THEN file.doc.items ELSE <<>>) \o DumpJobs(jobs)))

\* A write that goes to a temporary file first: a failed write leaves the
\* backup file as it was.
WriteBackupAtomic(file, jobs, io) ==
    CASE io = "open_error" -> file
      [] io = "write_error" -> file
      [] io = "ok" -> FileJson(JArray(DumpJobs(jobs)))

\* open('jobs.json', 'w') followed by f.write(json.dumps(jobs, ...)); io is
\* what the file system does: the open fails, the open truncates and the
\* write fails, or both succeed.
WriteBackup(file, jobs, io) ==
    CASE io = "open_error" -> file
      [] io = "write_error" -> FileEmpty
      [] io = "ok" -> FileJson(JArray(DumpJobs(jobs)))

IoOutcomes == {"ok", "open_error", "write_error"}

(***************************************************************************)
(* asyncio.Queue                                                           *)
(***************************************************************************)
\* A put() that inserts at the head.
QueuePutAtHead(queue, item) == <<item>> \o queue

\* A put() on a queue of capacity one that discards instead of waiting.
QueuePutBounded(queue, item) == IF Len(queue) >= 1 THEN queue ELSE Append(queue, item)

\* Queue.put on the unbounded queue.
QueuePut(queue, item) == Append(queue, item)

\* Queue.get on a non-empty queue: the item and the remaining queue.
QueueGet(queue) == [item |-> Head(queue), rest |-> Tail(queue)]

(***************************************************************************)
(* TaskHandler.__init__: the number of parallel processes                  *)
(***************************************************************************)
IntLiterals == <<"0", "1", "2", "3">>

\* int(value) on a string: raises ValueError unless the string is a literal.
IntRaises(str) == ~(\E i \in 1..Len(IntLiterals) : IntLiterals[i] = str)
IntOf(str) == (CHOOSE i \in 1..Len(IntLiterals) : IntLiterals[i] = str) - 1

\* utils.parseInt
parseInt(value, default) ==
    IF value.ty = "NoneType" THEN default
    ELSE IF value.ty = "int" THEN value.n
    ELSE IF value.ty = "str" /\ ~IntRaises(value.s) THEN IntOf(value.s)
    ELSE default

\* multiprocessing.cpu_count(): a count, or NotImplementedError.
CpuInputs ==
    {[raises |-> TRUE, n |-> 0]} \cup {[raises |-> FALSE, n |-> c] : c \in 1..MaxCpu}

\* os.environ.get('parallelProcesses'): unset, a string that is no number,
\* or a process count (zero included).
EnvInputs == {PyNone, PyStr("abc"), PyStr("0"), PyStr("2")}

\* int(multiprocessing.cpu_count()/2.0), 1 when cpu_count raises.
DefaultProcesses(cpu) == IF cpu.raises THEN 1 ELSE cpu.n \div 2

ParallelProcesses(cpu, env) == parseInt(env, DefaultProcesses(cpu))

(***************************************************************************)
(* The database: cells, rows, and tables with a unique key                 *)
(***************************************************************************)
\* A cell: SQL NULL / Python None, or a number.
Null == [null |-> TRUE, v |-> 0]
Val(x) == [null |-> FALSE, v |-> x]

\* An upsert that writes the new record as a whole new row.
UpsertReplacesRow(table, columns, key, data) ==
    [k \in DOMAIN table \cup {key} |->
        IF k # key THEN table[k]
        ELSE [c \in columns |-> IF c \in DOMAIN data THEN data[c] ELSE Null]]

\* An upsert that leaves a row that already exists as it is (DO NOTHING).
UpsertKeepsExisting(table, columns, key, data) ==
    IF key \in DOMAIN table THEN table
    ELSE [k \in DOMAIN table \cup {key} |->
             IF k # key THEN table[k]
             ELSE [c \in columns |-> IF c \in DOMAIN data THEN data[c] ELSE Null]]

\* INSERT INTO t (k1, ...) VALUES (...) ON CONFLICT ON CONSTRAINT uq DO UPDATE
\* SET k1=EXCLUDED.k1, ...: table maps a key (security, date) to its row,
\* data holds the columns the statement names, columns are those of the table.
Upsert(table, columns, key, data) ==
    [k \in DOMAIN table \cup {key} |->
        IF k # key THEN table[k]
        ELSE [c \in columns |->
                 IF c \in DOMAIN data THEN data[c]
                 ELSE IF key \in DOMAIN table THEN table[key][c] ELSE Null]]

\* The statement names a column the table does not have: the database raises.
UpsertRaises(columns, data) == ~(DOMAIN data \subseteq columns)

\* The price and volume columns of the quotes table (its key is security, date).
QuoteColumns ==
    { "open", "high", "low", "close", "split_adjusted_open", "split_adjusted_high",
      "split_adjusted_low", "split_adjusted_close", "adjusted_close", "volume" }

\* The columns of the frame built from the SELECT.
BaseColumns == QuoteColumns \cup {"date"}

\* con.executemany(sql, tupleList): the statement once per tuple.
RECURSIVE ExecuteMany(_, _, _)
ExecuteMany(table, columns, tuples) ==
    IF tuples = <<>> THEN table
    ELSE ExecuteMany(Upsert(table, columns, Head(tuples).key, Head(tuples).data),
                     columns, Tail(tuples))

\* DatabaseConnector.forceUpdateEntries on a table keyed by (security, date):
\* the statement names the columns of identifier | data[0]; an entry that
\* lacks one of them raises KeyError, and what it has beyond them is not
\* read.  io is what the database does with the statement.
forceUpdateEntries(table, columns, identifier, data, io) ==
    IF Len(data) > 0
    THEN LET order == DOMAIN identifier \cup DOMAIN data[1]
             d(i) == data[i] @@ identifier
         IN  IF \/ \E i \in 1..Len(data) : ~(order \subseteq DOMAIN d(i))
                \/ ~({"security", "date"} \subseteq order)
                \/ ~(order \subseteq columns \cup {"security", "date"})
                \/ io # "ok"
             THEN [success |-> FALSE, table |-> table]
             ELSE [success |-> TRUE,
                   table |-> ExecuteMany(table, columns,
                       [i \in 1..Len(data) |->
                           [key |-> <<d(i)["security"].v, d(i)["date"].v>>,
                            data |-> [c \in order \ {"security", "date"} |-> d(i)[c]]]])]
    ELSE [success |-> FALSE, table |-> table]

\* ORDER BY date ASC
RECURSIVE SortedDates(_)
SortedDates(dates) ==
    IF dates = {} THEN <<>>
    ELSE LET first == CHOOSE d \in dates : \A e \in dates : d <= e
         IN  <<first>> \o SortedDates(dates \ {first})

\* SELECT date, open, ... FROM quotes WHERE security=%s ORDER BY date ASC,
\* each fetched row turned into a dict of column name and value.
FetchQuotes(table, id) ==
    LET dates == SortedDates({k[2] : k \in {q \in DOMAIN table :
                                                id.ty = "int" /\ q[1] = id.n}})
    IN  [i \in 1..Len(dates) |->
            [c \in BaseColumns |->
                IF c = "date" THEN Val(dates[i]) ELSE table[<<id.n, dates[i]>>][c]]]

(***************************************************************************)
(* Data frames.  A frame is abstracted to the dates of its rows and, for   *)
(* every column, whether the column was assigned None as a whole and the   *)
(* cell of its last row.                                                   *)
(***************************************************************************)
NoneColumn == [none |-> TRUE, last |-> Null]
DataColumn(cell) == [none |-> FALSE, last |-> cell]

\* len(df): every row has its date.
Rows(df) == Len(df.dates)

\* pd.DataFrame(quotes): no rows give a frame without columns.
DataFrame(records) ==
    [ dates |-> [i \in 1..Len(records) |-> records[i]["date"].v],
      cols |-> IF Len(records) = 0 THEN << >>
               ELSE [c \in BaseColumns |-> DataColumn(records[Len(records)][c])] ]

\* df[name] = column
SetColumn(df, name, column) ==
    [df EXCEPT !.cols = [c \in DOMAIN df.cols \cup {name} |->
                            IF c = name THEN column ELSE df.cols[c]]]

\* for k in keys: df[k] = None
SetNone(df, keys) ==
    [df EXCEPT !.cols = [c \in DOMAIN df.cols \cup {keys[i] : i \in 1..Len(keys)} |->
                            IF \E i \in 1..Len(keys) : keys[i] = c
                            THEN NoneColumn ELSE df.cols[c]]]

\* df.drop(names, axis=1) / del df[name], for names that are columns.
DropColumns(df, names) ==
    [df EXCEPT !.cols = [c \in DOMAIN df.cols \ names |-> df.cols[c]]]

\* df[source] raises KeyError unless source names a column.
HasColumn(df, source) == source.ty = "str" /\ source.s \in DOMAIN df.cols

\* The number an indicator computes from a source column is abstracted to a
\* digest of what it read: the number of rows and the last source value.
Computed(df, source) == Val(Rows(df) * 100 + df.cols[source].last.v)

(***************************************************************************)
(* The indicator functions of indicators/indicators.py.  Each returns      *)
(* (success, frame, keys); a failure is an exception raised inside the     *)
(* function's try block.                                                   *)
(***************************************************************************)
\* decimal.Decimal, as parseParameters produces it.
PyDec(i) == [ty |-> "Decimal", n |-> i, s |-> "", d |-> {}]

\* int(x) / float(x) / 1/x on a parameter: a number converts, a string
\* converts when it is a number literal, anything else raises.
NumberRaises(x) == ~(x.ty \in {"int", "Decimal"} \/ (x.ty = "str" /\ ~IntRaises(x.s)))
NumberOf(x) == IF x.ty = "str" THEN IntOf(x.s) ELSE x.n

\* rolling(window=x) accepts only an int that is not negative.
IsWindow(x) == x.ty = "int" /\ x.n >= 0

Returned(success, df, keys) == [success |-> success, df |-> df, keys |-> keys]

\* df[k] = Computed(...) for every key.
RECURSIVE SetComputed(_, _, _)
SetComputed(df, keys, cell) ==
    IF keys = <<>> THEN df
    ELSE SetComputed(SetColumn(df, Head(keys), DataColumn(cell)), Tail(keys), cell)

SimpleMovingAverage(df, period, source) ==
    LET keys == <<"sma", "rising">>
    IN  IF NumberRaises(period) THEN Returned(FALSE, SetNone(df, keys), keys)
        ELSE IF Rows(df) > NumberOf(period)
        THEN IF ~HasColumn(df, source) THEN Returned(FALSE, SetNone(df, keys), keys)
             ELSE Returned(TRUE, SetComputed(df, keys, Computed(df, source.s)), keys)
        ELSE Returned(TRUE, SetNone(df, keys), keys)

\* ewm(span=period) takes the parameter itself: a string or a span below 1 raises.
ExponentialMovingAverage(df, period, source) ==
    LET keys == <<"ema", "rising">>
    IN  IF NumberRaises(period) THEN Returned(FALSE, SetNone(df, keys), keys)
        ELSE IF Rows(df) > NumberOf(period)
        THEN IF ~HasColumn(df, source) \/ period.ty = "str" \/ period.n < 1
             THEN Returned(FALSE, SetNone(df, keys), keys)
             ELSE Returned(TRUE, SetComputed(df, keys, Computed(df, source.s)), keys)
        ELSE Returned(TRUE, SetNone(df, keys), keys)

\* The working column std is dropped before the return.
BollingerBands(df, period, std, source) ==
    LET keys == <<"sma", "bb_upper", "bb_lower", "bb_pc", "bb_expanding">>
    IN  IF NumberRaises(period) \/ NumberRaises(std)
        THEN Returned(FALSE, SetNone(df, keys), keys)
        ELSE IF Rows(df) > NumberOf(period)
        THEN IF ~HasColumn(df, source) THEN Returned(FALSE, SetNone(df, keys), keys)
             ELSE Returned(TRUE, SetComputed(df, keys, Computed(df, source.s)), keys)
        ELSE Returned(TRUE, SetNone(df, keys), keys)

\* The working columns change, gain, loss, avg_gain, avg_loss and rs are
\* deleted before the return.
RSI(df, period, source) ==
    LET keys == <<"rsi">>
    IN  IF NumberRaises(period) THEN Returned(FALSE, SetNone(df, keys), keys)
        ELSE IF Rows(df) > NumberOf(period)
        THEN IF ~HasColumn(df, source) THEN Returned(FALSE, SetNone(df, keys), keys)
             ELSE Returned(TRUE, SetComputed(df, keys, Computed(df, source.s)), keys)
        ELSE Returned(TRUE, SetNone(df, keys), keys)

\* float(1/period) raises on a string and on zero.  The frame has its date
\* column.  When close is missing the working column H-L is already there.
ADXDMI(df, period) ==
    LET keys == <<"dmi_p", "dmi_m", "dmi_bull", "adx", "adx_crossing_date",
                  "dmi_crossing_date">>
    IN  IF period.ty \notin {"int", "Decimal"} \/ period.n = 0
        THEN Returned(FALSE, SetNone(df, keys), keys)
        ELSE IF ~({"high", "low"} \subseteq DOMAIN df.cols)
        THEN Returned(FALSE, SetNone(df, keys), keys)
        ELSE IF "close" \notin DOMAIN df.cols
        THEN Returned(FALSE,
                      SetNone(SetColumn(df, "H-L", DataColumn(Computed(df, "high"))), keys),
                      keys)
        ELSE Returned(TRUE, SetComputed(df, keys, Computed(df, "close")), keys)

\* df.loc[0, 'low'] raises on a frame without rows or without low; float(af)
\* raises after psar and psar_bull were added; a missing high raises after AF
\* was added; float(max) is evaluated inside the loop over the rows, after AF
\* and EP were added.  The frame has its date column.
PSAR(df, af, max) ==
    LET keys == <<"psar", "psar_bull", "psar_change_date">>
    IN  IF Rows(df) = 0 \/ "low" \notin DOMAIN df.cols \/ NumberRaises(af)
        THEN Returned(FALSE, SetNone(df, keys), keys)
        ELSE IF "high" \notin DOMAIN df.cols
        THEN Returned(FALSE,
                      SetNone(SetColumn(df, "AF", DataColumn(Val(NumberOf(af)))), keys),
                      keys)
        ELSE IF Rows(df) >= 2 /\ NumberRaises(max)
        THEN Returned(FALSE,
                      SetNone(SetComputed(df, <<"AF", "EP">>, Computed(df, "high")), keys),
                      keys)
        ELSE Returned(TRUE, SetComputed(df, keys, Computed(df, "low")), keys)

Slope(df, source) ==
    LET keys == <<"slope">>
    IN  IF ~HasColumn(df, source) THEN Returned(FALSE, SetNone(df, keys), keys)
        ELSE Returned(TRUE, SetComputed(df, keys, Computed(df, source.s)), keys)

Larger(df, source1, source2) ==
    LET keys == <<"larger">>
    IN  IF ~HasColumn(df, source1) \/ ~HasColumn(df, source2)
        THEN Returned(FALSE, SetNone(df, keys), keys)
        ELSE Returned(TRUE, SetComputed(df, keys, Computed(df, source1.s)), keys)

\* A rolling window of more rows than the frame has leaves the last row NaN.
HighLow(df, interval, sourceHigh, sourceLow, sourcePercentage) ==
    LET keys == <<"window_high", "window_high_pc", "window_low", "window_low_pc">>
    IN  IF \/ ~IsWindow(interval)
           \/ ~HasColumn(df, sourceHigh)
           \/ ~HasColumn(df, sourcePercentage)
           \/ ~HasColumn(df, sourceLow)
        THEN Returned(FALSE, SetNone(df, keys), keys)
        ELSE Returned(TRUE,
                      SetComputed(df, keys,
                                  IF Rows(df) >= interval.n
                                  THEN Computed(df, sourcePercentage.s) ELSE Null),
                      keys)

\* keys names cum_return; the column the function adds is cumulative_return.
\* rolling(window=interval) raises after logReturns was added.
CumulativeReturn(df, interval, source) ==
    LET keys == <<"cum_return">>
    IN  IF ~HasColumn(df, source) THEN Returned(FALSE, SetNone(df, keys), keys)
        ELSE IF ~IsWindow(interval)
        THEN Returned(FALSE,
                      SetNone(SetColumn(df, "logReturns",
                                        DataColumn(Computed(df, source.s))), keys),
                      keys)
        ELSE Returned(TRUE,
                      SetColumn(df, "cumulative_return",
                                DataColumn(IF Rows(df) > interval.n
                                           THEN Computed(df, source.s) ELSE Null)),
                      keys)

IndicatorNames ==
    { "SimpleMovingAverage", "ExponentialMovingAverage", "BollingerBands", "RSI",
      "ADXDMI", "PSAR", "Slope", "Larger", "HighLow", "CumulativeReturn" }

\* The parameters without a default in the function's signature.
RequiredParameters(name) ==
    CASE name \in {"SimpleMovingAverage", "ExponentialMovingAverage"} -> {"period"}
      [] name \in {"BollingerBands", "RSI", "ADXDMI", "PSAR"} -> {}
      [] name = "Slope" -> {"source"}
      [] name = "Larger" -> {"source1", "source2"}
      [] name \in {"HighLow", "CumulativeReturn"} -> {"interval"}

\* The defaults of the function's signature (af and max in hundredths).
DefaultParameters(name) ==
    CASE name \in {"SimpleMovingAverage", "ExponentialMovingAverage"} ->
             [source |-> PyStr("adjusted_close")]
      [] name = "BollingerBands" ->
             [period |-> PyDec(20), std |-> PyDec(2), source |-> PyStr("adjusted_close")]
      [] name = "RSI" -> [period |-> PyDec(14), source |-> PyStr("close")]
      [] name = "ADXDMI" -> [period |-> PyDec(14)]
      [] name = "PSAR" -> [af |-> PyDec(2), max |-> PyDec(20)]
      [] name \in {"Slope", "Larger"} -> << >>
      [] name = "HighLow" ->
             [sourceHigh |-> PyStr("high"), sourceLow |-> PyStr("low"),
              sourcePercentage |-> PyStr("close")]
      [] name = "CumulativeReturn" -> [source |-> PyStr("close")]

\* globals()[name] raises KeyError for an unknown name; the call raises
\* TypeError for a missing or an unexpected keyword argument.
CallRaises(name, params) ==
    \/ name \notin IndicatorNames
    \/ ~(RequiredParameters(name) \subseteq DOMAIN params)
    \/ ~(DOMAIN params \subseteq
            RequiredParameters(name) \cup DOMAIN DefaultParameters(name))

\* globals()[name](df, **params)
CallIndicator(name, df, params) ==
    LET a == params @@ DefaultParameters(name)
    IN  CASE name = "SimpleMovingAverage" -> SimpleMovingAverage(df, a.period, a.source)
          [] name = "ExponentialMovingAverage" ->
                 ExponentialMovingAverage(df, a.period, a.source)
          [] name = "BollingerBands" -> BollingerBands(df, a.period, a.std, a.source)
          [] name = "RSI" -> RSI(df, a.period, a.source)
          [] name = "ADXDMI" -> ADXDMI(df, a.period)
          [] name = "PSAR" -> PSAR(df, a.af, a.max)
          [] name = "Slope" -> Slope(df, a.source)
          [] name = "Larger" -> Larger(df, a.source1, a.source2)
          [] name = "HighLow" ->
                 HighLow(df, a.interval, a.sourceHigh, a.sourceLow, a.sourcePercentage)
          [] name = "CumulativeReturn" -> CumulativeReturn(df, a.interval, a.source)

(***************************************************************************)
(* IndicatorFactory: the pipeline a worker process runs                    *)
(***************************************************************************)
\* if len(dfDaily) < 10
MinRows == 10

\* Days are numbered; a week is seven consecutive days, a month thirty.
BucketDays(interval) == IF interval = 1 THEN 7 ELSE 30

\* resampleDataFrame: one row per bucket from the first date's bucket to the
\* last date's, each with the last date that falls into it (0 when none
\* does); the aggregates of the last bucket are abstracted to the cells of
\* the last daily row.  The daily frame is copied, not changed.
resampleDataFrame(data, interval) ==
    IF interval \in {1, 2} /\ Len(data.dates) > 0
    THEN LET w == BucketDays(interval)
             b0 == data.dates[1] \div w
             b1 == data.dates[Len(data.dates)] \div w
             In(b) == {i \in 1..Len(data.dates) : data.dates[i] \div w = b}
         IN  [ dates |-> [j \in 1..(b1 - b0 + 1) |->
                            IF In(b0 + j - 1) = {} THEN 0
                            ELSE data.dates[CHOOSE i \in In(b0 + j - 1) :
                                               \A k \in In(b0 + j - 1) : k <= i]],
               cols |-> data.cols ]
    ELSE data

\* str.isdecimal() on the strings the model uses.
IsDecimal(str) == ~IntRaises(str)

\* parseParameters: a string of digits becomes a Decimal.
parseParameters(input) ==
    [k \in DOMAIN input |->
        IF input[k].ty = "str" /\ IsDecimal(input[k].s)
        THEN PyDec(IntOf(input[k].s)) ELSE input[k]]

\* intervalFromStr(...).value, as a position in dfs; raises on other strings.
IntervalNames == <<{"d", "day", "daily"}, {"w", "week", "weekly"}, {"m", "month", "monthly"}>>
IntervalRaises(input) == ~(\E i \in 1..3 : input \in IntervalNames[i])
intervalFromStr(input) == CHOOSE i \in 1..3 : input \in IntervalNames[i]

\* df.rename(columns=mapping); the configured stored names are distinct from
\* each other and from the names of the frame's other columns.
Rename(df, mapping) ==
    LET NewName(c) == IF c \in DOMAIN mapping THEN mapping[c] ELSE c
    IN  [df EXCEPT !.cols =
            [n \in {NewName(c) : c \in DOMAIN df.cols} |->
                df.cols[CHOOSE c \in DOMAIN df.cols : NewName(c) = n]]]

\* The keys of a successful entry that the mapping does not name.
Unmapped(keys, mapping) == {keys[i] : i \in 1..Len(keys)} \ DOMAIN mapping

\* A loop over the entries that starts with the last entry of the file.
RECURSIVE RunEntriesLastFirst(_, _)
RunEntriesLastFirst(dfs, entries) ==
    IF entries = <<>> THEN [status |-> "ok", dfs |-> dfs]
    ELSE LET obj == entries[Len(entries)]
         IN  IF IntervalRaises(obj.interval) \/ CallRaises(obj.indicator, obj.parameters)
             THEN [status |-> "raised", dfs |-> dfs]
             ELSE LET t == intervalFromStr(obj.interval)
                      r == CallIndicator(obj.indicator, dfs[t],
                                         parseParameters(obj.parameters))
                  IN  IF r.success
                      THEN IF ~(Unmapped(r.keys, obj.mapping) \subseteq DOMAIN r.df.cols)
                           THEN [status |-> "raised", dfs |-> dfs]
                           ELSE RunEntriesLastFirst(
                                    [dfs EXCEPT ![t] =
                                        Rename(DropColumns(r.df,
                                                   Unmapped(r.keys, obj.mapping)),
                                               obj.mapping)],
                                    SubSeq(entries, 1, Len(entries) - 1))
                      ELSE [status |-> "failed", dfs |-> dfs]

\* for obj in config['securities']: ... of calculateMultiprocessing.  The
\* status is "ok" when the loop ends, "failed" at the return False after an
\* indicator reported failure, "raised" when a statement raised.
RECURSIVE RunEntries(_, _)
RunEntries(dfs, entries) ==
    IF entries = <<>> THEN [status |-> "ok", dfs |-> dfs]
    ELSE LET obj == Head(entries)
         IN  IF IntervalRaises(obj.interval) \/ CallRaises(obj.indicator, obj.parameters)
             THEN [status |-> "raised", dfs |-> dfs]
             ELSE LET t == intervalFromStr(obj.interval)
                      r == CallIndicator(obj.indicator, dfs[t],
                                         parseParameters(obj.parameters))
                  IN  IF r.success
                      THEN IF ~(Unmapped(r.keys, obj.mapping) \subseteq DOMAIN r.df.cols)
                           THEN [status |-> "raised", dfs |-> dfs]
                           ELSE RunEntries(
                                    [dfs EXCEPT ![t] =
                                        Rename(DropColumns(r.df,
                                                   Unmapped(r.keys, obj.mapping)),
                                               obj.mapping)],
                                    Tail(entries))
                      ELSE [status |-> "failed", dfs |-> dfs]

\* dfs[i].drop([...base columns...]).replace({np.nan: None}).iloc[-1].to_dict()
LastRow(df) == [c \in DOMAIN df.cols \ BaseColumns |-> df.cols[c].last]

\* data.update(...) for the daily, the weekly and the monthly frame in turn:
\* a later frame's value replaces an earlier one of the same name.
MergedRecord(dfs) == LastRow(dfs[3]) @@ LastRow(dfs[2]) @@ LastRow(dfs[1])

\* The columns of the indicators table besides its key (security, date).
IndicatorColumns == {"sma3_d", "sma3_w", "rising3_w", "slope_d", "rsi_d"}

\* A connection in autocommit mode: the INSERT is applied although the
\* commit raises.
TableAfterWriteAutocommit(table, key, data, fault) ==
    Upsert(table, IndicatorColumns, key, data)

\* cursor.execute(sql, tupleData); conn.commit(): nothing is stored when
\* either raises.
TableAfterWrite(table, key, data, fault) ==
    IF fault = "write" THEN table ELSE Upsert(table, IndicatorColumns, key, data)

\* What the environment does to a run: nothing, or the connection, the
\* SELECT or the INSERT/commit raises.
PipelineFaults == {"none", "connect", "select", "write"}

\* A threshold one row lower.
TooFewRowsBelowNine(df) == Rows(df) < MinRows - 1

\* if len(dfDaily) < 10
TooFewRows(df) == Rows(df) < MinRows

\* dfs[0]['date'].values[-1] taken from the first row instead.
RecordDateFirst(dfs) == Val(dfs[1].dates[1])

\* date = ... dfs[0]['date'].values[-1] ...
RecordDate(dfs) == dfs[1].cols["date"].last

\* calculateMultiprocessing(id, config) on the database (quotes and
\* indicators table) under a fault: the return value, the indicators table
\* it leaves, and how far it got.
calculateMultiprocessing(id, config, quotesTable, indicatorsTable, fault) ==
    LET unchanged(ret, step) ==
            [ret |-> ret, table |-> indicatorsTable, step |-> step, wrote |-> FALSE,
             key |-> <<0, 0>>, data |-> << >>]
    IN  IF fault \in {"connect", "select"} THEN unchanged(FALSE, fault)
        ELSE LET dfDaily == DataFrame(FetchQuotes(quotesTable, id))
             IN  IF TooFewRows(dfDaily) THEN unchanged(TRUE, "skipped")
                 ELSE LET run == RunEntries(<< dfDaily,
                                               resampleDataFrame(dfDaily, 1),
                                               resampleDataFrame(dfDaily, 2) >>,
                                            config)
                      IN  IF run.status = "failed" THEN unchanged(FALSE, "indicator")
                          ELSE IF run.status = "raised" THEN unchanged(FALSE, "entry")
                          ELSE IF \E i \in 1..3 :
                                     ~(BaseColumns \subseteq DOMAIN run.dfs[i].cols)
                          THEN unchanged(FALSE, "merge")
                          ELSE LET data == MergedRecord(run.dfs)
                                   key == <<id.n, RecordDate(run.dfs).v>>
                               IN  IF UpsertRaises(IndicatorColumns, data)
                                   THEN unchanged(FALSE, "write")
                                   ELSE [ret |-> fault # "write",
                                         table |-> TableAfterWrite(indicatorsTable, key,
                                                                   data, fault),
                                         step |-> IF fault = "write" THEN "write"
                                                  ELSE "written",
                                         wrote |-> fault # "write",
                                         key |-> key, data |-> data]

(***************************************************************************)
(* Frames with all their rows.  A frame is its index labels and its rows,  *)
(* both in row order; a row maps a column name to a cell.                  *)
(***************************************************************************)
\* How agg() combines the cells of a bucket, per column.
AggHowCloseFirst ==
    [ date |-> "last", open |-> "first", high |-> "max", low |-> "min",
      close |-> "first", split_adjusted_open |-> "first",
      split_adjusted_high |-> "max", split_adjusted_low |-> "min",
      split_adjusted_close |-> "last", adjusted_close |-> "last", volume |-> "sum" ]

\* The dict passed to agg().
AggHow ==
    [ date |-> "last", open |-> "first", high |-> "max", low |-> "min",
      close |-> "last", split_adjusted_open |-> "first",
      split_adjusted_high |-> "max", split_adjusted_low |-> "min",
      split_adjusted_close |-> "last", adjusted_close |-> "last", volume |-> "sum" ]

\* One aggregation over the cells of a bucket, in row order: the sum of no
\* cells is 0, every other aggregation of no cells is null.
Aggregate(how, cells) ==
    LET n == Len(cells)
        sum[i \in 0..n] == IF i = 0 THEN 0 ELSE sum[i - 1] + cells[i].v
        values == {cells[i].v : i \in 1..n}
    IN  IF how = "sum" THEN Val(sum[n])
        ELSE IF n = 0 THEN Null
        ELSE CASE how = "first" -> cells[1]
               [] how = "last" -> cells[n]
               [] how = "max" -> Val(CHOOSE v \in values : \A u \in values : u <= v)
               [] how = "min" -> Val(CHOOSE v \in values : \A u \in values : v <= u)

\* resampleDataFrame on a frame with all its rows: the argument as the call
\* leaves it, and the returned frame.  resample(rule, on='date') makes one
\* bucket per week or month from the first date's to the last date's, the
\* rows in date order; the buckets are then labelled 0..N-1.
ResampleCandles(data, interval) ==
    LET n == Len(data.rows)
        w == BucketDays(interval)
        Bucket(i) == data.rows[i]["date"].v \div w
        Members(b) == {i \in 1..n : Bucket(i) = b}
        Cells(b, c) ==
            LET m == Members(b)
                pos[k \in 0..n] == IF k = 0 THEN <<>>
                                   ELSE IF k \in m THEN Append(pos[k - 1], data.rows[k][c])
                                   ELSE pos[k - 1]
            IN  pos[n]
        count == IF n = 0 THEN 0 ELSE Bucket(n) - Bucket(1) + 1
        df == IF interval \in {1, 2}
              THEN [ index |-> [j \in 1..count |-> j - 1],
                     rows |-> [j \in 1..count |->
                                  [c \in DOMAIN AggHow |->
                                      Aggregate(AggHow[c], Cells(Bucket(1) + j - 1, c))]] ]
              ELSE [ index |-> [j \in 1..n |-> j - 1], rows |-> data.rows ]
    IN  [data |-> data, df |-> df]

(***************************************************************************)
(* Columns with all their rows.  A column is the sequence of its cells; a  *)
(* computed cell is NaN or an exact fraction of integers.                  *)
(***************************************************************************)
NaN == [null |-> TRUE, num |-> 0, den |-> 1]
Num(n, d) == [null |-> FALSE, num |-> n, den |-> d]

\* A rolling mean with min_periods=1: the mean of the rows there are.
RollingMeanPartial(x, N) ==
    LET sum[i \in 1..Len(x), k \in 0..N] ==
            IF k = 0 \/ k > i THEN 0 ELSE sum[i, k - 1] + x[i - k + 1]
    IN  [i \in 1..Len(x) |->
            IF i < N THEN Num(sum[i, i], i) ELSE Num(sum[i, N], N)]

\* x.rolling(N).mean() for N >= 1: NaN until N rows are there, then the mean
\* of the last N rows.
RollingMean(x, N) ==
    LET sum[i \in 1..Len(x), k \in 0..N] ==
            IF k = 0 \/ k > i THEN 0 ELSE sum[i, k - 1] + x[i - k + 1]
    IN  [i \in 1..Len(x) |-> IF i < N THEN NaN ELSE Num(sum[i, N], N)]

\* SimpleMovingAverage on the source column x with int(period) = N >= 1: the
\* success flag and the columns sma and rising.  rising compares the change
\* of sma against the row before, sma[i]/sma[i-1] - 1 > 0, which is False
\* where either is NaN; the source values are positive.
SmaSeries(x, N) ==
    IF Len(x) > N
    THEN LET sma == RollingMean(x, N)
         IN  [ success |-> TRUE,
               sma |-> sma,
               rising |-> [i \in 1..Len(x) |->
                              IF i = 1 \/ sma[i].null \/ sma[i - 1].null THEN Num(0, 1)
                              ELSE IF sma[i].num * sma[i - 1].den
                                        > sma[i - 1].num * sma[i].den
                                   THEN Num(1, 1) ELSE Num(0, 1)] ]
    ELSE [ success |-> TRUE,
           sma |-> [i \in 1..Len(x) |-> NaN],
           rising |-> [i \in 1..Len(x) |-> NaN] ]

\* A loss that keeps the sign of the change.
LossSigned(change) == IF change > 0 THEN 0 ELSE change

\* df['loss'] = -df.change.mask(df.change > 0, -0.0)
Loss(change) == IF change > 0 THEN 0 ELSE -change

\* RSI on the source column x with int(period) = N >= 1: the success flag
\* and the column rsi.  rma gives rows 1..N NaN, row N+1 the mean of the
\* values of rows 2..N+1, and every later row (a[i-1] * (N-1) + x[i]) / N;
\* avg_gain and avg_loss of a row have the same denominator, so rs is the
\* quotient of their numerators: NaN for 0/0, infinite for a loss of zero,
\* and 100 - 100 / (1 + rs) is then NaN, 100, or a fraction.
RsiSeries(x, N) ==
    LET n == Len(x)
        change(i) == x[i] - x[i - 1]
        gain(i) == IF change(i) < 0 THEN 0 ELSE change(i)
        loss(i) == Loss(change(i))
        first[i \in 1..(N + 1)] ==
            IF i = 1 THEN <<0, 0>>
            ELSE <<first[i - 1][1] + gain(i), first[i - 1][2] + loss(i)>>
        \* numerators of avg_gain and avg_loss, and their denominator
        avg[i \in (N + 1)..n] ==
            IF i = N + 1 THEN <<first[N + 1][1], first[N + 1][2], N>>
            ELSE << avg[i - 1][1] * (N - 1) + gain(i) * avg[i - 1][3],
                    avg[i - 1][2] * (N - 1) + loss(i) * avg[i - 1][3],
                    avg[i - 1][3] * N >>
        rsi(i) ==
            IF i <= N THEN NaN
            ELSE LET g == avg[i][1]
                     l == avg[i][2]
                 IN  IF l = 0 THEN IF g = 0 THEN NaN ELSE Num(100, 1)
                     ELSE Num(100 * (l + g) - 100 * l, l + g)
    IN  IF n > N
        THEN [success |-> TRUE, rsi |-> [i \in 1..n |-> rsi(i)]]
        ELSE [success |-> TRUE, rsi |-> [i \in 1..n |-> NaN]]

\* A scan that takes the first change of the trend instead of the last.
PsarChangeDateOldest(bull, date) ==
    LET n == Len(bull)
        changes == {i \in 1..(n - 1) : bull[i] # bull[i + 1]}
    IN  [i \in 1..n |->
            IF i = n /\ changes # {}
            THEN Val(date[(CHOOSE c \in changes : \A k \in changes : c <= k) + 1])
            ELSE Null]

\* The loop over df.sort_index(ascending=False): going back from the last
\* row, the first row whose psar_bull differs from the last row's ends the
\* scan, and the last row gets the date of the row visited before it.
PsarChangeDate(bull, date) ==
    LET n == Len(bull)
        differs == {i \in 1..(n - 1) : bull[i] # bull[n]}
    IN  [i \in 1..n |->
            IF i = n /\ differs # {}
            THEN Val(date[(CHOOSE c \in differs : \A k \in differs : k <= c) + 1])
            ELSE Null]

\* PSAR on the columns low, high and date of a frame with rows, for a step
\* af and a maximum max given as fractions of one denominator: the rows of
\* the loop (psar, psar_bull, AF as a numerator over that denominator, EP,
\* and sar, the value line 283 or 301 computes before a flip replaces it)
\* and the column psar_change_date.
PsarSeries(low, high, date, af, max) ==
    LET n == Len(low)
        U == af.den
        Less(x, q) == x * q.den < q.num       \* x < q, an integer and a fraction
        More(x, q) == x * q.den > q.num
        row[a \in 1..n] ==
            IF a = 1
            THEN [psar |-> Num(low[1], 1), bull |-> TRUE, AF |-> af.num, EP |-> high[1],
                  sar |-> Num(low[1], 1)]
            ELSE LET p == row[a - 1]
                     sar == Num(p.psar.num * U + p.AF * (p.EP * p.psar.den - p.psar.num),
                                p.psar.den * U)
                 IN  IF p.bull
                     THEN IF Less(low[a], p.psar) \/ Less(low[a], sar)
                          THEN [psar |-> Num(p.EP, 1), bull |-> FALSE, AF |-> af.num,
                                EP |-> low[a - 1], sar |-> sar]
                          ELSE IF high[a] > p.EP
                          THEN [psar |-> sar, bull |-> TRUE,
                                AF |-> IF p.AF <= max.num - af.num
                                       THEN p.AF + af.num ELSE p.AF,
                                EP |-> high[a], sar |-> sar]
                          ELSE [psar |-> sar, bull |-> TRUE, AF |-> p.AF, EP |-> p.EP,
                                sar |-> sar]
                     ELSE IF More(high[a], p.psar) \/ More(high[a], sar)
                          THEN [psar |-> Num(p.EP, 1), bull |-> TRUE, AF |-> af.num,
                                EP |-> high[a - 1], sar |-> sar]
                          ELSE IF low[a] < p.EP
                          THEN [psar |-> sar, bull |-> FALSE,
                                AF |-> IF p.AF < max.num THEN p.AF + af.num ELSE p.AF,
                                EP |-> low[a], sar |-> sar]
                          ELSE [psar |-> sar, bull |-> FALSE, AF |-> p.AF, EP |-> p.EP,
                                sar |-> sar]
    IN  [ success |-> TRUE,
          rows |-> row,
          psar_change_date |-> PsarChangeDate([a \in 1..n |-> row[a].bull], date) ]

\* A scan that keeps looking for an ADX crossing behind the DMI change.
AdxScanPastFlip(bull, adx, dmi_p, dmi_m, date) ==
    LET n == Len(bull)
        Cross(i) == IF bull[i] THEN adx[i] <= dmi_m[i] /\ adx[i + 1] > dmi_m[i + 1]
                    ELSE adx[i] <= dmi_p[i] /\ adx[i + 1] > dmi_p[i + 1]
        flips == {i \in 1..(n - 1) : bull[i] # bull[n]}
        crossings == {i \in 1..(n - 1) : Cross(i)}
        Latest(S) == CHOOSE i \in S : \A k \in S : k <= i
    IN  [ adx_crossing_date |->
              [i \in 1..n |-> IF i = n /\ crossings # {}
                              THEN Val(date[Latest(crossings) + 1]) ELSE Null],
          dmi_crossing_date |->
              [i \in 1..n |-> IF i = n /\ flips # {}
                              THEN Val(date[Latest(flips) + 1]) ELSE Null] ]

\* A scan that looks for ADX falling below the dominant line.
AdxScanDominantDown(bull, adx, dmi_p, dmi_m, date) ==
    LET n == Len(bull)
        Cross(i) == IF bull[i] THEN adx[i] > dmi_p[i] /\ adx[i + 1] < dmi_p[i + 1]
                    ELSE adx[i] > dmi_m[i] /\ adx[i + 1] < dmi_m[i + 1]
        visit[i \in 1..n] ==
            IF i = n
            THEN [dmiFound |-> FALSE, adxFound |-> FALSE, dmiDate |-> Null,
                  adxDate |-> Null, broke |-> FALSE]
            ELSE LET q == visit[i + 1]
                     flip == bull[i] # bull[n] /\ ~q.dmiFound
                     f == IF flip
                          THEN [q EXCEPT !.dmiFound = TRUE, !.dmiDate = Val(date[i + 1])]
                          ELSE q
                     c == IF ~f.adxFound /\ Cross(i)
                          THEN [f EXCEPT !.adxFound = TRUE, !.adxDate = Val(date[i + 1])]
                          ELSE f
                 IN  IF q.broke THEN q
                     ELSE IF flip /\ ~q.adxFound THEN [f EXCEPT !.broke = TRUE]
                     ELSE [c EXCEPT !.broke = c.adxFound /\ c.dmiFound]
    IN  [ adx_crossing_date |->
              [i \in 1..n |-> IF i = n THEN visit[1].adxDate ELSE Null],
          dmi_crossing_date |->
              [i \in 1..n |-> IF i = n THEN visit[1].dmiDate ELSE Null] ]

\* The loop of ADXDMI over df.sort_index(ascending=False), on the columns
\* dmi_bull, adx, dmi_p, dmi_m and date: the state after the visit of row i,
\* where row i + 1 is valueBefore, and the two date columns it leaves.
AdxScan(bull, adx, dmi_p, dmi_m, date) ==
    LET n == Len(bull)
        Cross(i) == IF bull[i] THEN adx[i] <= dmi_m[i] /\ adx[i + 1] > dmi_m[i + 1]
                    ELSE adx[i] <= dmi_p[i] /\ adx[i + 1] > dmi_p[i + 1]
        visit[i \in 1..n] ==
            IF i = n
            THEN [dmiFound |-> FALSE, adxFound |-> FALSE, dmiDate |-> Null,
                  adxDate |-> Null, broke |-> FALSE]
            ELSE LET q == visit[i + 1]
                     flip == bull[i] # bull[n] /\ ~q.dmiFound
                     f == IF flip
                          THEN [q EXCEPT !.dmiFound = TRUE, !.dmiDate = Val(date[i + 1])]
                          ELSE q
                     c == IF ~f.adxFound /\ Cross(i)
                          THEN [f EXCEPT !.adxFound = TRUE, !.adxDate = Val(date[i + 1])]
                          ELSE f
                 IN  IF q.broke THEN q
                     ELSE IF flip /\ ~q.adxFound THEN [f EXCEPT !.broke = TRUE]
                     ELSE [c EXCEPT !.broke = c.adxFound /\ c.dmiFound]
    IN  [ adx_crossing_date |->
              [i \in 1..n |-> IF i = n THEN visit[1].adxDate ELSE Null],
          dmi_crossing_date |->
              [i \in 1..n |-> IF i = n THEN visit[1].dmiDate ELSE Null] ]

(***************************************************************************)
(* The authentication middleware of the HTTP application                   *)
(***************************************************************************)

\* app.state.authToken: token_hex(16), or the first line of the token file.
authToken == PyStr("t1")

\* No request is being handled.
NoRequest ==
    [method |-> "", token |-> PyNone, shape |-> "", query |-> <<>>,
     operationName |-> PyNone]

\* Nothing was answered yet.
NoResponse == [status |-> 0, forwarded |-> FALSE, executed |-> ""]

\* The requests a client can send.  token is the x-auth-token header (PyNone:
\* no such header).  shape is what the body is: "text" is not JSON, "array" a
\* JSON list, "noQuery" a JSON object without the key 'query', "nullQuery" an
\* object whose 'query' is null, "object" an object whose 'query' is a string.
\* A query string is a sequence of lexemes: white space, a comment, or an
\* operation of a type and a name ("" for an anonymous one).
Requests ==
    LET Lexemes ==
            { [lex |-> "ws", name |-> ""], [lex |-> "comment", name |-> ""],
              [lex |-> "mutation", name |-> ""], [lex |-> "mutation", name |-> "A"],
              [lex |-> "query", name |-> "B"] }
        Queries == {<<>>} \cup { <<a>> : a \in Lexemes }
                       \cup { <<a, b>> : a \in Lexemes, b \in Lexemes }
    IN  { [method |-> m, token |-> t, shape |-> "object", query |-> q,
           operationName |-> o] :
            m \in {"GET", "POST"}, t \in {PyNone, PyStr("t0"), authToken},
            q \in Queries, o \in {PyNone, PyStr("A"), PyStr("B")} }
        \cup
        { [method |-> "POST", token |-> t, shape |-> s, query |-> <<>>,
           operationName |-> PyNone] :
            t \in {PyNone, PyStr("t0"), authToken},
            s \in {"text", "array", "noQuery", "nullQuery"} }

\* The type of the operation the GraphQL application executes for a request
\* handed to it: "mutation", "query", or "none" when it executes nothing (a GET
\* serves the explorer page; a document without operations, with several
\* operations and no operationName, or without exactly one operation of the
\* name asked for is answered with an error).
ExecutedOperation(req) ==
    LET ops == SelectSeq(req.query, LAMBDA x : x.lex \in {"mutation", "query"})
        named == SelectSeq(ops, LAMBDA x : req.operationName = PyStr(x.name))
        names == { ops[i].name : i \in 1..Len(ops) }
    IN  IF req.method # "POST" \/ req.shape # "object" THEN "none"
        ELSE IF Len(ops) = 0 \/ Cardinality(names) # Len(ops) THEN "none"
        ELSE IF req.operationName = PyNone
             THEN IF Len(ops) = 1 THEN ops[1].lex ELSE "none"
        ELSE IF Len(named) = 1 /\ named[1].name # "" THEN named[1].lex
        ELSE "none"

\* authMiddleware(request, call_next): the status of the response and whether
\* call_next(request) ran.  Whatever raises inside the try block leaves the
\* prepared 500 response.
authMiddleware(req, token) ==
    LET startswithMutation == Len(req.query) > 0 /\ req.query[1].lex = "mutation"
    IN  IF req.method = "POST" /\ req.shape # "object"
        THEN [status |-> 500, forwarded |-> FALSE]
        ELSE IF req.method = "POST" /\ startswithMutation
                /\ ~(req.token # PyNone /\ req.token = token)
        THEN [status |-> 401, forwarded |-> FALSE]
        ELSE [status |-> 200, forwarded |-> TRUE]

(***************************************************************************)
(* State                                                                   *)
(***************************************************************************)
VARIABLES
    parallelProcesses,  \* TaskHandler.parallelProcesses
    jobQueue,           \* TaskHandler.jobQueue, head first
    backgroundTasks,    \* TaskHandler.backgroundTasks
    shutdownRequest,    \* TaskHandler.shutdownRequest
    schedPc,            \* where the scheduleTasks coroutine stands
    workingOnTasks,     \* local variable of scheduleTasks
    children,           \* multiprocessing.active_children(): live workers
    nextPid,            \* number the next started process gets
    backupFile,         \* content of jobs.json
    phase,              \* lifespan: "init", "running", "stopped"
    created,            \* jobs created so far by the request layer
    restarts,           \* process starts after the first
    submitted,          \* history: jobs put into the queue, in put order
    removed,            \* history: jobs the scheduling loop took, in order
    lastOp,             \* history: the operation that ran last
    loadReturn,         \* history: return value of the last loadJobs
    drained,            \* history: jobs the last shutdown took from the queue
    writeOutcome,       \* history: what the last shutdown's file write did
    cleanStart,         \* history: this process start follows a shutdown
    quotes,             \* database: the quotes table, by (security, date)
    indicators,         \* database: the indicators table, by (security, date)
    dbFaults,           \* database: what may happen to a worker's run ("none": nothing)
    indicatorConfig,    \* TaskHandler.indicatorConfig['securities']
    indicatorCalculation, \* parseBoolean(os.environ.get('indicatorCalculation'))
    lastRun,            \* history: outcome of the last worker pipeline run
    lastUpdate,         \* history: outcome of the last quotes update request
    indCall,            \* an indicator function, a frame and parameters
    indReturn,          \* what the indicator function returned for indCall
    request,            \* the HTTP request the middleware is handling
    response            \* what the client got back, and what was executed

vars ==
    << parallelProcesses, jobQueue, backgroundTasks, shutdownRequest, schedPc,
       workingOnTasks, children, nextPid, backupFile, phase, created, restarts,
       submitted, removed, lastOp, loadReturn, drained, writeOutcome, cleanStart,
       quotes, indicators, dbFaults, indicatorConfig, indicatorCalculation,
       lastRun, lastUpdate, indCall, indReturn, request, response >>

\* The database, the configuration, the indicator call and the HTTP exchange.
dbvars ==
    << quotes, indicators, dbFaults, indicatorConfig, indicatorCalculation,
       lastUpdate, indCall, indReturn, request, response >>

Tables == {"quotes", "securities"}
SecurityIds == {1}

(***************************************************************************)
(* The database and the configuration a process may find                   *)
(***************************************************************************)
\* Day d's entry of a quotes update, and the quotes a security has for the
\* days 1..n.
QuoteRow(d) == [c \in BaseColumns |-> IF c = "date" THEN Val(d) ELSE Val(100 + d)]
History(security, n) ==
    [k \in {<<security, d>> : d \in 1..n} |-> [c \in QuoteColumns |-> Val(100 + k[2])]]

\* Security 1 has no quotes, one row less than the pipeline asks for, or
\* just enough.
InitialQuotes == {History(1, 0), History(1, MinRows - 1), History(1, MinRows)}

\* A row an earlier run, under an earlier configuration, has stored.
StoredRow ==
    [sma3_d |-> Val(1), sma3_w |-> Val(2), rising3_w |-> Null, slope_d |-> Null,
     rsi_d |-> Val(7)]

InitialIndicators ==
    { << >>,
      [k \in {<<1, MinRows - 1>>, <<1, MinRows>>, <<2, MinRows>>} |-> StoredRow] }

\* Entries of indicators.json.
EntrySmaDaily ==
    [ indicator |-> "SimpleMovingAverage", interval |-> "daily",
      parameters |-> [period |-> PyStr("3"), source |-> PyStr("close")],
      mapping |-> [sma |-> "sma3_d"] ]
EntrySmaWeekly ==
    [ indicator |-> "SimpleMovingAverage", interval |-> "w",
      parameters |-> [period |-> PyInt(3), source |-> PyStr("close")],
      mapping |-> [sma |-> "sma3_w", rising |-> "rising3_w"] ]
EntrySlope ==
    [ indicator |-> "Slope", interval |-> "d",
      parameters |-> [source |-> PyStr("sma3_d")],
      mapping |-> [slope |-> "slope_d"] ]
EntrySlopeNoSource ==
    [ indicator |-> "Slope", interval |-> "d",
      parameters |-> [source |-> PyStr("sma5_d")],
      mapping |-> [slope |-> "slope_d"] ]
EntryUnknown ==
    [ indicator |-> "MovingMedian", interval |-> "d",
      parameters |-> [period |-> PyInt(3)],
      mapping |-> [median |-> "sma3_d"] ]

\* A configuration that works, one whose second entry reports failure, and
\* one that names a function that does not exist.
Configs ==
    { <<EntrySmaDaily, EntrySmaWeekly, EntrySlope>>,
      <<EntrySmaDaily, EntrySlopeNoSource, EntrySmaWeekly>>,
      <<EntrySmaDaily, EntryUnknown>> }

\* str.lower() on the strings the model uses.
Lower(str) == IF str = "False" THEN "false" ELSE IF str = "TRUE" THEN "true" ELSE str

\* utils.parseBoolean on None or a string.
parseBoolean(value) ==
    value.ty = "str" /\ value.s # "" /\ Lower(value.s) \in {"1", "true", "t", "yes", "y"}

\* os.environ.get('indicatorCalculation')
FlagInputs == {PyNone, PyStr("TRUE"), PyStr("False")}

\* The quotes lists a request may carry: none, the next day, two entries
\* of which the second lacks columns of the first, one entry with a date
\* and a close only.
QuoteUpdates ==
    { << >>,
      <<QuoteRow(MinRows)>>,
      <<QuoteRow(MinRows + 1), [date |-> Val(MinRows + 2)]>>,
      <<[date |-> Val(MinRows), close |-> Val(999)]>> }

NoRun == [ret |-> FALSE, step |-> "none", wrote |-> FALSE, key |-> <<0, 0>>,
          data |-> << >>]
NoUpdate == [found |-> FALSE, success |-> FALSE, enqueued |-> FALSE, security |-> 0,
             data |-> << >>]

\* Frames, and keyword arguments per function, for single indicator calls.
FrameOf(n, columns) ==
    [ dates |-> [i \in 1..n |-> i],
      cols |-> [c \in columns |-> DataColumn(IF n = 0 THEN Null ELSE Val(100 + n))] ]

IndicatorFrames ==
    { FrameOf(n, columns) :
        n \in {0, 1, 4},
        columns \in {BaseColumns, BaseColumns \ {"close"}, BaseColumns \ {"high"}} }

ParameterInputs(name) ==
    CASE name \in {"SimpleMovingAverage", "ExponentialMovingAverage", "BollingerBands",
                   "RSI"} ->
             { [period |-> p, source |-> src] :
                 p \in {PyInt(2), PyStr("abc")}, src \in {PyStr("close"), PyStr("vwap")} }
      [] name = "ADXDMI" -> { [period |-> p] : p \in {PyInt(2), PyInt(0), PyStr("abc")} }
      [] name = "PSAR" -> { [af |-> a] : a \in {PyDec(2), PyStr("abc")} }
      [] name = "Slope" -> { [source |-> src] : src \in {PyStr("close"), PyStr("vwap")} }
      [] name = "Larger" ->
             { [source1 |-> src, source2 |-> PyStr("open")] :
                 src \in {PyStr("close"), PyStr("vwap")} }
      [] name = "HighLow" -> { [interval |-> i] : i \in {PyInt(2), PyDec(2)} }
      [] name = "CumulativeReturn" ->
             { [interval |-> i, source |-> src] :
                 i \in {PyInt(2), PyDec(2)}, src \in {PyStr("close"), PyStr("vwap")} }

IndicatorCalls ==
    UNION { { [name |-> name, df |-> df, params |-> params] :
                df \in IndicatorFrames, params \in ParameterInputs(name) } :
            name \in IndicatorNames }
NoCall == [name |-> "", df |-> [dates |-> << >>, cols |-> << >>], params |-> << >>]
NoReturn == [raised |-> FALSE, success |-> FALSE,
             df |-> [dates |-> << >>, cols |-> << >>], keys |-> << >>]

(***************************************************************************)
(* TaskHandler.__init__ as called by lifespan                              *)
(***************************************************************************)
Init ==
    /\ \E cpu \in CpuInputs, env \in EnvInputs :
           parallelProcesses = ParallelProcesses(cpu, env)
    /\ jobQueue = <<>>
    /\ backgroundTasks = {}
    /\ shutdownRequest = FALSE
    /\ schedPc = "created"
    /\ workingOnTasks = FALSE
    /\ children = {}
    /\ nextPid = 1
    /\ backupFile \in InitialBackupFiles
    /\ phase = "init"
    /\ created = 0
    /\ restarts = 0
    /\ submitted = <<>>
    /\ removed = <<>>
    /\ lastOp = "init"
    /\ loadReturn = FALSE
    /\ drained = <<>>
    /\ writeOutcome = "none"
    /\ cleanStart = FALSE
    /\ quotes = History(1, 0)
    /\ indicators = << >>
    /\ dbFaults = {"none"}
    /\ indicatorConfig = <<EntrySmaDaily>>
    /\ indicatorCalculation = TRUE
    /\ lastRun = NoRun
    /\ lastUpdate = NoUpdate
    /\ indCall = NoCall
    /\ indReturn = NoReturn
    /\ request = NoRequest
    /\ response = NoResponse

(***************************************************************************)
(* TaskHandler.loadJobs                                                    *)
(***************************************************************************)
\* A restore loop that gives every restored job a new identity.
RECURSIVE PutBackupJobsFreshIdentity(_, _, _)
PutBackupJobsFreshIdentity(queue, backup, k) ==
    IF backup = <<>> THEN [queue |-> queue, raised |-> FALSE]
    ELSE IF FromDictRaises(Head(backup)) THEN [queue |-> queue, raised |-> TRUE]
    ELSE PutBackupJobsFreshIdentity(
             Append(queue, FromDictFreshIdentity(Head(backup), k + Len(queue))),
             Tail(backup), k)

\* The for loop over the decoded list: each entry is converted and put; the
\* first entry whose conversion raises ends the loop with the exception.
RECURSIVE PutBackupJobs(_, _, _)
PutBackupJobs(queue, backup, k) ==
    IF backup = <<>> THEN [queue |-> queue, raised |-> FALSE]
    ELSE IF FromDictRaises(Head(backup)) THEN [queue |-> queue, raised |-> TRUE]
    ELSE PutBackupJobs(QueuePut(queue, FromDict(Head(backup), k)), Tail(backup), k)

\* returnValue set to True before the loop instead of after it.
LoadReturnValueEarly(raised) == TRUE

\* returnValue: set to True after the loop, left False when it raised.
LoadReturnValue(raised) == ~raised

\* The queue and the return value loadJobs leaves.
LoadJobsResult(file, queue, k) ==
    IF file.kind # "json" THEN [queue |-> queue, ret |-> FALSE]
    ELSE IF file.doc.ty = "array"
    THEN IF Len(file.doc.items) > 0
         THEN LET r == PutBackupJobs(queue, file.doc.items, k)
              IN  [queue |-> r.queue, ret |-> LoadReturnValue(r.raised)]
         ELSE [queue |-> queue, ret |-> FALSE]
    ELSE [queue |-> queue, ret |-> FALSE]

LoadJobs ==
    /\ phase = "init"
    /\ LET r == LoadJobsResult(backupFile, jobQueue, created + 1)
       IN  /\ jobQueue' = r.queue
           /\ loadReturn' = r.ret
           /\ submitted' = submitted \o
                  [i \in 1..(Len(r.queue) - Len(jobQueue)) |->
                      FromDict(backupFile.doc.items[i], created + 1)]
    /\ phase' = "running"
    /\ lastOp' = "loadJobs"
    /\ UNCHANGED << parallelProcesses, backgroundTasks, shutdownRequest, schedPc,
                    workingOnTasks, children, nextPid, backupFile, created,
                    restarts, removed, drained, writeOutcome, cleanStart >>
    /\ UNCHANGED << dbvars, lastRun >>

(***************************************************************************)
(* TaskHandler.addJob, called by Mutation.resolve_updateSecurityQuotes     *)
(***************************************************************************)
AddJob ==
    /\ phase \in {"running", "stopped"}
    /\ schedPc # "loop"
    /\ created < MaxJobs
    /\ \E table \in Tables, id \in SecurityIds :
           LET job == NewJob(table, id, created + 1)
           IN  /\ jobQueue' = QueuePut(jobQueue, job)
               /\ submitted' = Append(submitted, job)
    /\ created' = created + 1
    /\ lastOp' = "addJob"
    /\ UNCHANGED << parallelProcesses, backgroundTasks, shutdownRequest, schedPc,
                    workingOnTasks, children, nextPid, backupFile, phase,
                    restarts, removed, loadReturn, drained, writeOutcome,
                    cleanStart >>
    /\ UNCHANGED << dbvars, lastRun >>

(***************************************************************************)
(* TaskHandler.scheduleTasks                                               *)
(***************************************************************************)
\* An admission test that is off by one.
CanDispatchInclusive(live, limit, qsize) == live <= limit /\ qsize > 0

\* The condition of the inner while loop, evaluated before every dispatch.
CanDispatch(live, limit, qsize) == live < limit /\ qsize > 0

\* A routing test that also sends "securities" jobs to the pipeline.
RoutesToPipelineAnyTable(job) == job.table \in {PyStr("quotes"), PyStr("securities")}

\* if jobData.table == 'quotes': the job goes to the indicator pipeline.
RoutesToPipeline(job) == job.table = PyStr("quotes")

\* The scheduling coroutine is first run, or its sleep ends, and the outer
\* while condition is evaluated.
SchedulerWake ==
    /\ phase # "init"
    /\ schedPc \in {"created", "sleep"}
    /\ schedPc' = IF shutdownRequest = FALSE THEN "loop" ELSE "ended"
    /\ lastOp' = "wake"
    /\ UNCHANGED << parallelProcesses, jobQueue, backgroundTasks, shutdownRequest,
                    workingOnTasks, children, nextPid, backupFile, phase, created,
                    restarts, submitted, removed, loadReturn, drained,
                    writeOutcome, cleanStart >>
    /\ UNCHANGED << dbvars, lastRun >>

\* One iteration of the inner loop on a "quotes" job: Process(...).start().
StartWorker ==
    /\ schedPc = "loop"
    /\ CanDispatch(Cardinality(children), parallelProcesses, Len(jobQueue))
    /\ LET got == QueueGet(jobQueue)
       IN  /\ RoutesToPipeline(got.item)
           /\ jobQueue' = got.rest
           /\ children' = children \cup
                  {[pid |-> nextPid, security |-> got.item.id1, job |-> got.item.uuid]}
           /\ removed' = Append(removed, [job |-> got.item, fate |-> "started"])
    /\ nextPid' = nextPid + 1
    /\ lastOp' = "start"
    /\ UNCHANGED << parallelProcesses, backgroundTasks, shutdownRequest, schedPc,
                    workingOnTasks, backupFile, phase, created, restarts,
                    submitted, loadReturn, drained, writeOutcome, cleanStart >>
    /\ UNCHANGED << dbvars, lastRun >>

\* One iteration of the inner loop on a "quotes" job where creating or
\* starting the process raises: the exception leaves both loops, is logged
\* by the except clause around them, and the coroutine returns.
StartWorkerRaises ==
    /\ schedPc = "loop"
    /\ CanDispatch(Cardinality(children), parallelProcesses, Len(jobQueue))
    /\ LET got == QueueGet(jobQueue)
       IN  /\ RoutesToPipeline(got.item)
           /\ jobQueue' = got.rest
           /\ removed' = Append(removed, [job |-> got.item, fate |-> "raised"])
    /\ schedPc' = "ended"
    /\ lastOp' = "startRaises"
    /\ UNCHANGED << parallelProcesses, backgroundTasks, shutdownRequest,
                    workingOnTasks, children, nextPid, backupFile, phase, created,
                    restarts, submitted, loadReturn, drained, writeOutcome,
                    cleanStart >>
    /\ UNCHANGED << dbvars, lastRun >>

\* One iteration of the inner loop on a job of any other table: a warning.
DropUnhandled ==
    /\ schedPc = "loop"
    /\ CanDispatch(Cardinality(children), parallelProcesses, Len(jobQueue))
    /\ LET got == QueueGet(jobQueue)
       IN  /\ ~RoutesToPipeline(got.item)
           /\ jobQueue' = got.rest
           /\ removed' = Append(removed, [job |-> got.item, fate |-> "dropped"])
    /\ lastOp' = "drop"
    /\ UNCHANGED << parallelProcesses, backgroundTasks, shutdownRequest, schedPc,
                    workingOnTasks, children, nextPid, backupFile, phase, created,
                    restarts, submitted, loadReturn, drained, writeOutcome,
                    cleanStart >>
    /\ UNCHANGED << dbvars, lastRun >>

\* The inner loop ends; the queue depth is logged and the coroutine sleeps.
TickEnd ==
    /\ schedPc = "loop"
    /\ ~CanDispatch(Cardinality(children), parallelProcesses, Len(jobQueue))
    /\ workingOnTasks' = (Len(jobQueue) > 0)
    /\ schedPc' = "sleep"
    /\ lastOp' = "tickEnd"
    /\ UNCHANGED << parallelProcesses, jobQueue, backgroundTasks, shutdownRequest,
                    children, nextPid, backupFile, phase, created, restarts,
                    submitted, removed, loadReturn, drained, writeOutcome,
                    cleanStart >>
    /\ UNCHANGED << dbvars, lastRun >>

\* A worker process runs calculateMultiprocessing and exits.
WorkerExit(w) ==
    /\ w \in children
    /\ children' = children \ {w}
    /\ \E fault \in dbFaults :
           \E r \in {calculateMultiprocessing(w.security, indicatorConfig, quotes,
                                             indicators, fault)} :
               /\ indicators' = r.table
               /\ lastRun' = [ret |-> r.ret, step |-> r.step, wrote |-> r.wrote,
                               key |-> r.key, data |-> r.data]
    /\ lastOp' = "workerExit"
    /\ UNCHANGED << parallelProcesses, jobQueue, backgroundTasks, shutdownRequest,
                    schedPc, workingOnTasks, nextPid, backupFile, phase, created,
                    restarts, submitted, removed, loadReturn, drained,
                    writeOutcome, cleanStart, quotes, dbFaults, indicatorConfig,
                    indicatorCalculation, lastUpdate, indCall, indReturn,
                    request, response >>

(***************************************************************************)
(* TaskHandler.shutdown                                                    *)
(***************************************************************************)
\* A drain that leaves the last job in the queue.
RECURSIVE DrainQueueButLast(_, _)
DrainQueueButLast(queue, jobs) ==
    IF Len(queue) > 1
    THEN DrainQueueButLast(QueueGet(queue).rest, Append(jobs, QueueGet(queue).item))
    ELSE [jobs |-> jobs, queue |-> <<>>]

\* while self.jobQueue.qsize() > 0: jobs.append(await self.jobQueue.get())
RECURSIVE DrainQueue(_, _)
DrainQueue(queue, jobs) ==
    IF Len(queue) > 0
    THEN DrainQueue(QueueGet(queue).rest, Append(jobs, QueueGet(queue).item))
    ELSE [jobs |-> jobs, queue |-> queue]

\* The condition of shutdown's waiting loop.
ShutdownWaits(tasks) == Cardinality(tasks) > 0

\* A cancel() that resumes the parked coroutine into one more tick.
CancelTaskResumes(pc) == IF pc \in {"created", "sleep"} THEN "loop" ELSE pc

\* task.cancel(): a coroutine parked at its sleep, or not yet run, ends.
CancelTask(pc) == IF pc \in {"created", "sleep"} THEN "cancelled" ELSE pc

Shutdown ==
    /\ phase = "running"
    /\ schedPc # "loop"
    /\ shutdownRequest' = TRUE
    /\ schedPc' = CancelTask(schedPc)
    /\ ~ShutdownWaits(backgroundTasks)
    /\ LET r == DrainQueue(jobQueue, <<>>)
       IN  /\ jobQueue' = r.queue
           /\ drained' = jobQueue
           /\ \E io \in IoOutcomes :
                  /\ backupFile' = WriteBackup(backupFile, r.jobs, io)
                  /\ writeOutcome' = io
    /\ phase' = "stopped"
    /\ lastOp' = "shutdown"
    /\ UNCHANGED << parallelProcesses, backgroundTasks, workingOnTasks, children,
                    nextPid, created, restarts, submitted, removed, loadReturn,
                    cleanStart >>
    /\ UNCHANGED << dbvars, lastRun >>

(***************************************************************************)
(* The process ends (after shutdown, or by a crash) and is started again:  *)
(* lifespan constructs a new TaskHandler on the same host.  The file and   *)
(* the uuid/clock source outlive the process; the new process has no       *)
(* children.                                                               *)
(***************************************************************************)
\* A restart that hands the old process's queue to the new process.
RestartKeepsQueue ==
    /\ phase \in {"running", "stopped"}
    /\ restarts < MaxRestarts
    /\ restarts' = restarts + 1
    /\ jobQueue' = jobQueue
    /\ backgroundTasks' = {}
    /\ shutdownRequest' = FALSE
    /\ schedPc' = "created"
    /\ workingOnTasks' = FALSE
    /\ children' = {}
    /\ nextPid' = 1
    /\ phase' = "init"
    /\ submitted' = <<>>
    /\ removed' = <<>>
    /\ lastOp' = "restart"
    /\ loadReturn' = FALSE
    /\ cleanStart' = (phase = "stopped")
    /\ drained' = IF phase = "stopped" THEN drained ELSE <<>>
    /\ writeOutcome' = IF phase = "stopped" THEN writeOutcome ELSE "none"
    /\ lastRun' = NoRun
    /\ UNCHANGED << parallelProcesses, backupFile, created, dbvars >>

Restart ==
    /\ phase \in {"running", "stopped"}
    /\ restarts < MaxRestarts
    /\ restarts' = restarts + 1
    /\ jobQueue' = <<>>
    /\ backgroundTasks' = {}
    /\ shutdownRequest' = FALSE
    /\ schedPc' = "created"
    /\ workingOnTasks' = FALSE
    /\ children' = {}
    /\ nextPid' = 1
    /\ phase' = "init"
    /\ submitted' = <<>>
    /\ removed' = <<>>
    /\ lastOp' = "restart"
    /\ loadReturn' = FALSE
    /\ cleanStart' = (phase = "stopped")
    /\ drained' = IF phase = "stopped" THEN drained ELSE <<>>
    /\ writeOutcome' = IF phase = "stopped" THEN writeOutcome ELSE "none"
    /\ lastRun' = NoRun
    /\ UNCHANGED << parallelProcesses, backupFile, created, dbvars >>

(***************************************************************************)
(* Mutation.resolve_updateSecurityQuotes                                   *)
(***************************************************************************)
\* A request with a quotes list: the security is not found, or it is found
\* and io is what the database does with the write.
UpdateSecurityQuotes ==
    /\ phase = "running"
    /\ schedPc # "loop"
    /\ created < MaxJobs
    /\ \/ /\ lastUpdate' = NoUpdate
          /\ UNCHANGED << quotes, jobQueue, submitted, created >>
       \/ \E id \in SecurityIds, data \in QuoteUpdates, io \in {"ok", "error"} :
            \E result \in {forceUpdateEntries(quotes, QuoteColumns,
                                              [security |-> Val(id)], data, io)} :
              LET job == NewJob("quotes", id, created + 1)
              IN  /\ quotes' = result.table
                  /\ IF indicatorCalculation = TRUE
                     THEN /\ jobQueue' = QueuePut(jobQueue, job)
                          /\ submitted' = Append(submitted, job)
                          /\ created' = created + 1
                     ELSE UNCHANGED << jobQueue, submitted, created >>
                  /\ lastUpdate' = [found |-> TRUE, success |-> result.success,
                                    enqueued |-> indicatorCalculation,
                                    security |-> id,
                                    data |-> IF result.success THEN data ELSE << >>]
    /\ lastOp' = "updateQuotes"
    /\ UNCHANGED << parallelProcesses, backgroundTasks, shutdownRequest, schedPc,
                    workingOnTasks, children, nextPid, backupFile, phase,
                    restarts, removed, loadReturn, drained, writeOutcome,
                    cleanStart, indicators, dbFaults, indicatorConfig,
                    indicatorCalculation, lastRun, indCall, indReturn,
                    request, response >>

Next ==
    \/ LoadJobs
    \/ AddJob
    \/ SchedulerWake
    \/ StartWorker
    \/ StartWorkerRaises
    \/ DropUnhandled
    \/ TickEnd
    \/ \E w \in children : WorkerExit(w)
    \/ Shutdown
    \/ Restart

Spec == Init /\ [][Next]_vars

(***************************************************************************)
(* The scheduler over a database with quotes: requests update the quotes   *)
(* and submit jobs, workers run the pipeline.  The process has started on  *)
(* a host without a backup file.                                           *)
(***************************************************************************)
PipelineInit ==
    /\ parallelProcesses = 2
    /\ jobQueue = <<>>
    /\ backgroundTasks = {}
    /\ shutdownRequest = FALSE
    /\ schedPc = "created"
    /\ workingOnTasks = FALSE
    /\ children = {}
    /\ nextPid = 1
    /\ backupFile = FileMissing
    /\ phase = "running"
    /\ created = 0
    /\ restarts = 0
    /\ submitted = <<>>
    /\ removed = <<>>
    /\ lastOp = "loadJobs"
    /\ loadReturn = FALSE
    /\ drained = <<>>
    /\ writeOutcome = "none"
    /\ cleanStart = FALSE
    /\ quotes \in InitialQuotes
    /\ indicators \in InitialIndicators
    /\ dbFaults = PipelineFaults
    /\ indicatorConfig \in Configs
    /\ \E flag \in FlagInputs : indicatorCalculation = parseBoolean(flag)
    /\ lastRun = NoRun
    /\ lastUpdate = NoUpdate
    /\ indCall = NoCall
    /\ indReturn = NoReturn
    /\ request = NoRequest
    /\ response = NoResponse

PipelineNext ==
    \/ UpdateSecurityQuotes
    \/ SchedulerWake
    \/ StartWorker
    \/ TickEnd
    \/ \E w \in children : WorkerExit(w)

PipelineSpec == PipelineInit /\ [][PipelineNext]_vars

(***************************************************************************)
(* Single calls of the indicator functions                                 *)
(***************************************************************************)
ApplyIndicator ==
    /\ indCall # NoCall
    /\ indReturn = NoReturn
    /\ indReturn' =
           IF CallRaises(indCall.name, indCall.params)
           THEN [NoReturn EXCEPT !.raised = TRUE]
           ELSE LET r == CallIndicator(indCall.name, indCall.df, indCall.params)
                IN  [raised |-> FALSE, success |-> r.success, df |-> r.df, keys |-> r.keys]
    /\ lastOp' = "applyIndicator"
    /\ UNCHANGED << parallelProcesses, jobQueue, backgroundTasks, shutdownRequest,
                    schedPc, workingOnTasks, children, nextPid, backupFile, phase,
                    created, restarts, submitted, removed, loadReturn, drained,
                    writeOutcome, cleanStart, quotes, indicators, dbFaults,
                    indicatorConfig, indicatorCalculation, lastRun, lastUpdate,
                    indCall, request, response >>

IndicatorInit ==
    /\ parallelProcesses = 1
    /\ jobQueue = <<>>
    /\ backgroundTasks = {}
    /\ shutdownRequest = FALSE
    /\ schedPc = "created"
    /\ workingOnTasks = FALSE
    /\ children = {}
    /\ nextPid = 1
    /\ backupFile = FileMissing
    /\ phase = "init"
    /\ created = 0
    /\ restarts = 0
    /\ submitted = <<>>
    /\ removed = <<>>
    /\ lastOp = "init"
    /\ loadReturn = FALSE
    /\ drained = <<>>
    /\ writeOutcome = "none"
    /\ cleanStart = FALSE
    /\ quotes = History(1, 0)
    /\ indicators = << >>
    /\ dbFaults = {"none"}
    /\ indicatorConfig = <<EntrySmaDaily>>
    /\ indicatorCalculation = TRUE
    /\ lastRun = NoRun
    /\ lastUpdate = NoUpdate
    /\ indCall \in IndicatorCalls
    /\ indReturn = NoReturn
    /\ request = NoRequest
    /\ response = NoResponse

IndicatorNext == ApplyIndicator

IndicatorSpec == IndicatorInit /\ [][IndicatorNext]_vars

(***************************************************************************)
(* Properties of the scheduler                                             *)
(***************************************************************************)

\* C1: the scheduling loop takes jobs from the queue in the order in which
\* they were put: the jobs taken so far are, in order, the first jobs put,
\* so a job put earlier is never taken after a job put later.
C1_FifoDispatch ==
    /\ Len(removed) <= Len(submitted)
    /\ \A i \in 1..Len(removed) : removed[i].job = submitted[i]

\* Three jobs, restored and submitted, were taken while a later one waits.
C1_Witness ==
    /\ Len(removed) >= 3
    /\ Len(submitted) > Len(removed)
    /\ removed[3].job.uuid = PyStr("u1")

\* C2: the number of live worker processes never exceeds parallelProcesses,
\* whatever the queue holds and however ticks and worker exits interleave.
C2_AdmissionCap == Cardinality(children) <= parallelProcesses

\* Five jobs were put, the limit of two is reached, and a tick ended with
\* jobs still waiting.
C2_Witness ==
    /\ parallelProcesses = 2
    /\ Cardinality(children) = 2
    /\ Len(submitted) = 5
    /\ Len(jobQueue) >= 1
    /\ lastOp = "tickEnd"

\* C3: when shutdown has drained the queue, written the file and returned,
\* no worker process is alive.
C3_ShutdownWaitsForWorkers == lastOp = "shutdown" => Cardinality(children) = 0

C10_SubmitAppends ==
    [][ lastOp' = "addJob" =>
            /\ Len(jobQueue') = Len(jobQueue) + 1
            /\ SubSeq(jobQueue', 1, Len(jobQueue)) = jobQueue
            /\ jobQueue'[Len(jobQueue')] = submitted'[Len(submitted')] ]_vars

\* A job was submitted while a worker was running and two jobs waited.
C10_Witness ==
    /\ lastOp = "addJob"
    /\ Len(jobQueue) >= 3
    /\ Cardinality(children) >= 1

\* C11: once shutdown has set the stop flag the scheduling coroutine never
\* stands in a tick again, the loop takes no job from the queue and no worker
\* is started; and shutdown itself leaves every live worker alive.
C11_NoDispatchAfterShutdown ==
    /\ [](shutdownRequest => schedPc \in {"cancelled", "ended"})
    /\ [][ shutdownRequest =>
               /\ children' \subseteq children
               /\ (removed' = removed \/ lastOp' = "restart") ]_vars
    /\ [][ lastOp' = "shutdown" => children' = children ]_vars

\* After shutdown a worker is still alive and a job submitted since then
\* waits in the queue, with the scheduling coroutine cancelled.
C11_Witness ==
    /\ shutdownRequest
    /\ schedPc = "cancelled"
    /\ Cardinality(children) >= 1
    /\ Len(jobQueue) >= 1

\* C12: the jobs shutdown takes from the queue, and the entries it writes to
\* the backup file, are none of the jobs for which the loop started a worker
\* in this run.
C12_PersistedDisjointFromStarted ==
    lastOp = "shutdown" =>
        LET started == { removed[j].job :
                           j \in {i \in 1..Len(removed) : removed[i].fate = "started"} }
        IN  /\ \A i \in 1..Len(drained) : drained[i] \notin started
            /\ writeOutcome = "ok" =>
                   \A i \in 1..Len(backupFile.doc.items) :
                       \A job \in started : backupFile.doc.items[i] # EncodeJob(job)

\* A job restored from the file was given to a worker, and shutdown then
\* wrote a job that was still waiting.
C12_Witness ==
    /\ lastOp = "shutdown"
    /\ writeOutcome = "ok"
    /\ Len(drained) >= 1
    /\ Len(removed) >= 1
    /\ removed[1].fate = "started"
    /\ removed[1].job.uuid = PyStr("f1")

C15_ShortHistorySkips ==
    [][ lastOp' = "workerExit" =>
            \A w \in children \ children' :
                ( /\ Cardinality({q \in DOMAIN quotes : q[1] = w.security.n}) < MinRows
                  /\ lastRun'.step \notin {"connect", "select"} )
                => /\ lastRun'.ret
                   /\ ~lastRun'.wrote
                   /\ indicators' = indicators ]_vars

\* A run found nine quotes, one less than it asks for, and returned True
\* beside a table that holds rows.
C15_Witness ==
    /\ lastOp = "workerExit"
    /\ lastRun.ret
    /\ lastRun.step = "skipped"
    /\ Cardinality(DOMAIN quotes) = MinRows - 1
    /\ DOMAIN indicators # {}

\* C16: a run in which a configured indicator reported failure still goes
\* through the remaining entries and upserts the merged record.
C16_IndicatorFailureRecoverable ==
    (lastOp = "workerExit" /\ lastRun.step = "indicator") =>
        (lastRun.ret /\ lastRun.wrote)

\* C17: a run that fails leaves the indicators table as it was, puts nothing
\* into the queue, and changes nothing of the scheduler but the one process
\* that ends.
C17_FailedRunLeavesNoTrace ==
    [][ (lastOp' = "workerExit" /\ ~lastRun'.ret) =>
            /\ indicators' = indicators
            /\ jobQueue' = jobQueue
            /\ submitted' = submitted
            /\ schedPc' = schedPc
            /\ shutdownRequest' = shutdownRequest
            /\ workingOnTasks' = workingOnTasks
            /\ parallelProcesses' = parallelProcesses
            /\ backgroundTasks' = backgroundTasks
            /\ children' \subseteq children
            /\ Cardinality(children \ children') = 1 ]_vars

\* A run failed at its write while the table held rows and a job waited.
C17_Witness ==
    /\ lastOp = "workerExit"
    /\ ~lastRun.ret
    /\ lastRun.step = "write"
    /\ DOMAIN indicators # {}
    /\ Len(jobQueue) >= 1

\* C18: an upsert of a record on the key (security, date) leaves a row for
\* that key in which every column of the record has the record's value and
\* every other column the value stored before (null when there was no row),
\* and leaves the rows of all other keys as they were; for the pipeline's
\* write to the indicators table and for a quotes update of one entry.
C18_UpsertPerColumn ==
    [][ LET Effect(old, new, columns, key, data) ==
                /\ DOMAIN new = DOMAIN old \cup {key}
                /\ \A k \in DOMAIN old \ {key} : new[k] = old[k]
                /\ \A c \in columns :
                       new[key][c] = IF c \in DOMAIN data THEN data[c]
                                     ELSE IF key \in DOMAIN old THEN old[key][c]
                                     ELSE Null
        IN  /\ (lastOp' = "workerExit" /\ lastRun'.wrote) =>
                   Effect(indicators, indicators', IndicatorColumns,
                          lastRun'.key, lastRun'.data)
            /\ (lastOp' = "updateQuotes" /\ lastUpdate'.success
                    /\ Len(lastUpdate'.data) = 1) =>
                   LET entry == lastUpdate'.data[1]
                   IN  Effect(quotes, quotes', QuoteColumns,
                              <<lastUpdate'.security, entry["date"].v>>,
                              [c \in DOMAIN entry \ {"date"} |-> entry[c]]) ]_vars

\* A run wrote over a stored row: the column its record lacks kept the stored
\* value, a column it has changed, and the row of another security stayed.
C18_Witness ==
    /\ lastOp = "workerExit"
    /\ lastRun.wrote
    /\ lastRun.key = <<1, MinRows>>
    /\ "rsi_d" \notin DOMAIN lastRun.data
    /\ indicators[<<1, MinRows>>]["rsi_d"] = Val(7)
    /\ indicators[<<1, MinRows>>]["sma3_d"] # Val(1)
    /\ <<2, MinRows>> \in DOMAIN indicators

\* C19: every name an indicator function returns is a column of the frame it
\* returns, and a column assigned None when the function reports failure.
C19_KeysAreColumns ==
    (lastOp = "applyIndicator" /\ ~indReturn.raised) =>
        \A i \in 1..Len(indReturn.keys) :
            /\ indReturn.keys[i] \in DOMAIN indReturn.df.cols
            /\ ~indReturn.success => indReturn.df.cols[indReturn.keys[i]].none

\* C20: a quotes update whose write reports failure puts no job into the queue.
C20_SubmitOnlyAfterWrite ==
    [][ (lastOp' = "updateQuotes" /\ lastUpdate'.found /\ ~lastUpdate'.success) =>
            jobQueue' = jobQueue ]_vars

(***************************************************************************)
(* Single calls of the functions that compute over all rows of a frame     *)
(***************************************************************************)
\* IndicatorFactory.resampleDataFrame(data, interval)
ResampleDataFrame ==
    /\ indCall.name = "resampleDataFrame"
    /\ indReturn = NoReturn
    /\ \E r \in {ResampleCandles(indCall.df, indCall.params.interval)} :
           /\ indCall' = [indCall EXCEPT !.df = r.data]
           /\ indReturn' = [raised |-> FALSE, success |-> TRUE, df |-> r.df,
                            keys |-> << >>]
    /\ lastOp' = "resampleDataFrame"
    /\ UNCHANGED << parallelProcesses, jobQueue, backgroundTasks, shutdownRequest,
                    schedPc, workingOnTasks, children, nextPid, backupFile, phase,
                    created, restarts, submitted, removed, loadReturn, drained,
                    writeOutcome, cleanStart, quotes, indicators, dbFaults,
                    indicatorConfig, indicatorCalculation, lastRun, lastUpdate,
                    request, response >>

\* SimpleMovingAverage(df, period, source)
CallSimpleMovingAverage ==
    /\ indCall.name = "SimpleMovingAverage"
    /\ indReturn = NoReturn
    /\ \E r \in {SmaSeries(indCall.df[indCall.params.source], indCall.params.period)} :
           indReturn' = [raised |-> FALSE, success |-> r.success,
                         df |-> [sma |-> r.sma, rising |-> r.rising],
                         keys |-> <<"sma", "rising">>]
    /\ lastOp' = "SimpleMovingAverage"
    /\ UNCHANGED << parallelProcesses, jobQueue, backgroundTasks, shutdownRequest,
                    schedPc, workingOnTasks, children, nextPid, backupFile, phase,
                    created, restarts, submitted, removed, loadReturn, drained,
                    writeOutcome, cleanStart, quotes, indicators, dbFaults,
                    indicatorConfig, indicatorCalculation, lastRun, lastUpdate,
                    indCall, request, response >>

\* RSI(df, period, source)
CallRSI ==
    /\ indCall.name = "RSI"
    /\ indReturn = NoReturn
    /\ \E r \in {RsiSeries(indCall.df[indCall.params.source], indCall.params.period)} :
           indReturn' = [raised |-> FALSE, success |-> r.success,
                         df |-> [rsi |-> r.rsi], keys |-> <<"rsi">>]
    /\ lastOp' = "RSI"
    /\ UNCHANGED << parallelProcesses, jobQueue, backgroundTasks, shutdownRequest,
                    schedPc, workingOnTasks, children, nextPid, backupFile, phase,
                    created, restarts, submitted, removed, loadReturn, drained,
                    writeOutcome, cleanStart, quotes, indicators, dbFaults,
                    indicatorConfig, indicatorCalculation, lastRun, lastUpdate,
                    indCall, request, response >>

\* PSAR(df, af, max)
CallPSAR ==
    /\ indCall.name = "PSAR"
    /\ indReturn = NoReturn
    /\ \E r \in {PsarSeries(indCall.df["low"], indCall.df["high"], indCall.df["date"],
                            indCall.params.af, indCall.params.max)} :
           indReturn' = [raised |-> FALSE, success |-> r.success,
                         df |-> [rows |-> r.rows,
                                 psar_change_date |-> r.psar_change_date],
                         keys |-> <<"psar", "psar_bull", "psar_change_date">>]
    /\ lastOp' = "PSAR"
    /\ UNCHANGED << parallelProcesses, jobQueue, backgroundTasks, shutdownRequest,
                    schedPc, workingOnTasks, children, nextPid, backupFile, phase,
                    created, restarts, submitted, removed, loadReturn, drained,
                    writeOutcome, cleanStart, quotes, indicators, dbFaults,
                    indicatorConfig, indicatorCalculation, lastRun, lastUpdate,
                    indCall, request, response >>

\* The last part of ADXDMI(df, period): the search for the crossing dates.
CallADXDMI ==
    /\ indCall.name = "ADXDMI"
    /\ indReturn = NoReturn
    /\ \E r \in {AdxScan([i \in 1..Len(indCall.df["adx"]) |->
                             indCall.df["dmi_p"][i] > indCall.df["dmi_m"][i]],
                         indCall.df["adx"], indCall.df["dmi_p"], indCall.df["dmi_m"],
                         indCall.df["date"])} :
           indReturn' = [raised |-> FALSE, success |-> TRUE,
                         df |-> [adx_crossing_date |-> r.adx_crossing_date,
                                 dmi_crossing_date |-> r.dmi_crossing_date],
                         keys |-> <<"dmi_p", "dmi_m", "dmi_bull", "adx",
                                    "adx_crossing_date", "dmi_crossing_date">>]
    /\ lastOp' = "ADXDMI"
    /\ UNCHANGED << parallelProcesses, jobQueue, backgroundTasks, shutdownRequest,
                    schedPc, workingOnTasks, children, nextPid, backupFile, phase,
                    created, restarts, submitted, removed, loadReturn, drained,
                    writeOutcome, cleanStart, quotes, indicators, dbFaults,
                    indicatorConfig, indicatorCalculation, lastRun, lastUpdate,
                    indCall, request, response >>

(***************************************************************************)
(* A process that is neither shut down nor restarted, under a fair event   *)
(* loop: the scheduling coroutine is resumed when it can run, and every    *)
(* worker process exits.                                                   *)
(***************************************************************************)
LiveNext ==
    \/ LoadJobs
    \/ AddJob
    \/ SchedulerWake
    \/ StartWorker
    \/ StartWorkerRaises
    \/ DropUnhandled
    \/ TickEnd
    \/ \E w \in children : WorkerExit(w)

LiveSpec ==
    /\ Init
    /\ [][LiveNext]_vars
    /\ WF_vars(LoadJobs)
    /\ WF_vars(SchedulerWake)
    /\ WF_vars(StartWorker \/ StartWorkerRaises)
    /\ WF_vars(DropUnhandled)
    /\ WF_vars(TickEnd)
    /\ WF_vars(\E w \in children : WorkerExit(w))

\* The calls: a function, the frame or the columns it reads, its parameters.
\* Daily frames for resampleDataFrame have a quote on every day of a
\* non-empty set of days (two in each of two adjacent weeks, two in a later
\* week of which the last is in the next month), all columns filled, prices
\* that rise and fall from day to day, and are labelled from 0 or (cut out
\* of a longer frame) from 3.
SeriesCalls ==
    LET Price(c, d, tape) ==
            LET seed == CHOOSE k \in 1..11 :
                            <<"date", "open", "high", "low", "close",
                              "split_adjusted_open", "split_adjusted_high",
                              "split_adjusted_low", "split_adjusted_close",
                              "adjusted_close", "volume">>[k] = c
            IN  ((d * (2 + tape) + seed) % 7) + 1
        Frame(days, tape, first) ==
            LET dates == SortedDates(days)
            IN  [ index |-> [i \in 1..Len(dates) |-> first + i - 1],
                  rows |-> [i \in 1..Len(dates) |->
                               [c \in BaseColumns |->
                                   IF c = "date" THEN Val(dates[i])
                                   ELSE Val(Price(c, dates[i], tape))]] ]
        resample ==
            { [name |-> "resampleDataFrame", df |-> Frame(days, tape, first),
               params |-> [interval |-> t]] :
                days \in (SUBSET {5, 6, 8, 13, 29, 31}) \ {{}}, tape \in {0, 1},
                first \in {0, 3}, t \in {0, 1, 2} }
        Series(values, lengths) ==
            UNION { [1..n -> values] : n \in lengths }
        sma ==
            { [name |-> "SimpleMovingAverage", df |-> [close |-> x],
               params |-> [period |-> N, source |-> "close"]] :
                x \in Series(1..3, 0..4) \cup {<<1, 2, 3, 4, 5, 6>>}, N \in {1, 2, 3, 5} }
        rsi ==
            { [name |-> "RSI", df |-> [close |-> x],
               params |-> [period |-> N, source |-> "close"]] :
                x \in Series(1..3, 2..5), N \in {1, 2, 3} }
        \* Candles with low <= high, and 20-row series of one price that rises
        \* by up a row for rising rows and then falls by down a row.
        candles == {<<1, 2>>, <<3, 4>>, <<1, 4>>, <<2, 3>>}
        Hill(rising, up, down) ==
            [i \in 1..20 |-> IF i <= rising THEN 100 + up * (i - 1)
                             ELSE 100 + up * (rising - 1) - down * (i - rising)]
        psar ==
            { [name |-> "PSAR",
               df |-> [low |-> [i \in 1..Len(c) |-> c[i][1]],
                       high |-> [i \in 1..Len(c) |-> c[i][2]],
                       date |-> [i \in 1..Len(c) |-> 100 + i]],
               params |-> [af |-> p[1], max |-> p[2]]] :
                c \in Series(candles, 1..4),
                p \in { <<Num(1, 2), Num(1, 2)>>, <<Num(1, 2), Num(2, 2)>>,
                        <<Num(2, 4), Num(3, 4)>> } }
            \cup
            { [name |-> "PSAR",
               df |-> [low |-> Hill(rising, up, down), high |-> Hill(rising, up, down),
                       date |-> [i \in 1..20 |-> 100 + i]],
               params |-> [af |-> Num(1, 2), max |-> Num(m, 2)]] :
                rising \in {10, 18}, up \in {1, 10}, down \in {1, 10}, m \in {1, 2} }
        \* Rows of the columns dmi_p, dmi_m and adx as ADXDMI has computed
        \* them: either line above the other, adx below both, between them or
        \* above both.
        lines == { <<p, m, a>> : p \in {1, 2}, m \in {1, 2}, a \in {0, 2, 3} }
        adxdmi ==
            { [name |-> "ADXDMI",
               df |-> [dmi_p |-> [i \in 1..Len(c) |-> c[i][1]],
                       dmi_m |-> [i \in 1..Len(c) |-> c[i][2]],
                       adx |-> [i \in 1..Len(c) |-> c[i][3]],
                       date |-> [i \in 1..Len(c) |-> 100 + i]],
               params |-> [period |-> 14]] :
                c \in Series({l \in lines : l[1] # l[2]}, 1..4) }
    IN  resample \cup sma \cup rsi \cup psar \cup adxdmi

SeriesInit ==
    /\ parallelProcesses = 1
    /\ jobQueue = <<>>
    /\ backgroundTasks = {}
    /\ shutdownRequest = FALSE
    /\ schedPc = "created"
    /\ workingOnTasks = FALSE
    /\ children = {}
    /\ nextPid = 1
    /\ backupFile = FileMissing
    /\ phase = "init"
    /\ created = 0
    /\ restarts = 0
    /\ submitted = <<>>
    /\ removed = <<>>
    /\ lastOp = "init"
    /\ loadReturn = FALSE
    /\ drained = <<>>
    /\ writeOutcome = "none"
    /\ cleanStart = FALSE
    /\ quotes = History(1, 0)
    /\ indicators = << >>
    /\ dbFaults = {"none"}
    /\ indicatorConfig = <<EntrySmaDaily>>
    /\ indicatorCalculation = TRUE
    /\ lastRun = NoRun
    /\ lastUpdate = NoUpdate
    /\ indCall \in SeriesCalls
    /\ indReturn = NoReturn
    /\ request = NoRequest
    /\ response = NoResponse

SeriesNext ==
    \/ ResampleDataFrame
    \/ CallSimpleMovingAverage
    \/ CallRSI
    \/ CallPSAR
    \/ CallADXDMI

SeriesSpec == SeriesInit /\ [][SeriesNext]_vars

(***************************************************************************)
(* Properties of the computations over all rows                            *)
(***************************************************************************)

\* C21: resampling to weeks or months gives, for every bucket that holds
\* daily rows, the first open, the largest high, the smallest low, the last
\* close, the sum of the volumes and the last date of these rows, and every
\* daily row falls into a bucket; the returned frame is labelled 0..N-1 and
\* the frame passed in is left as it was.
C21_ResampleCandles ==
    [][ lastOp' = "resampleDataFrame" =>
            LET daily == indCall.df
                out == indReturn'.df
                n == Len(daily.rows)
                w == BucketDays(indCall.params.interval)
                Of(j) == {i \in 1..n : daily.rows[i]["date"].v \div w
                                         = daily.rows[1]["date"].v \div w + j - 1}
                First(j) == CHOOSE i \in Of(j) : \A k \in Of(j) : i <= k
                Last(j) == CHOOSE i \in Of(j) : \A k \in Of(j) : k <= i
                Volume(j) ==
                    LET s[k \in 0..n] ==
                            IF k = 0 THEN 0
                            ELSE s[k - 1] + (IF k \in Of(j)
                                             THEN daily.rows[k]["volume"].v ELSE 0)
                    IN  s[n]
            IN  /\ indCall'.df = daily
                /\ out.index = [j \in 1..Len(out.rows) |-> j - 1]
                /\ indCall.params.interval \in {1, 2} =>
                       /\ \A i \in 1..n : \E j \in 1..Len(out.rows) : i \in Of(j)
                       /\ \A j \in 1..Len(out.rows) : Of(j) # {} =>
                              /\ out.rows[j]["open"] = daily.rows[First(j)]["open"]
                              /\ out.rows[j]["close"] = daily.rows[Last(j)]["close"]
                              /\ out.rows[j]["date"] = daily.rows[Last(j)]["date"]
                              /\ out.rows[j]["volume"] = Val(Volume(j))
                              /\ \A i \in Of(j) :
                                     /\ daily.rows[i]["high"].v <= out.rows[j]["high"].v
                                     /\ out.rows[j]["low"].v <= daily.rows[i]["low"].v
                              /\ \E i \in Of(j) :
                                     out.rows[j]["high"] = daily.rows[i]["high"]
                              /\ \E i \in Of(j) :
                                     out.rows[j]["low"] = daily.rows[i]["low"] ]_vars

\* Six daily rows labelled from 3 were resampled to five weeks labelled from
\* 0: the first week's close is not its first daily close, its volume is the
\* sum of two days, and the weeks without a quote have no date.
C21_Witness ==
    /\ lastOp = "resampleDataFrame"
    /\ indCall.params.interval = 1
    /\ Len(indCall.df.rows) = 6
    /\ indCall.df.index[1] = 3
    /\ indReturn.df.index = <<0, 1, 2, 3, 4>>
    /\ indReturn.df.rows[1]["close"] # indCall.df.rows[1]["close"]
    /\ indReturn.df.rows[1]["volume"].v
           = indCall.df.rows[1]["volume"].v + indCall.df.rows[2]["volume"].v
    /\ indReturn.df.rows[3]["date"] = Null

\* C22: SimpleMovingAverage with period N reports success; on more than N
\* rows the rows before the N-th have no sma and every later row has the
\* mean of the N source values that end at it; on N rows or fewer every cell
\* of sma and rising is null.
C22_SmaWindowMean ==
    (lastOp = "SimpleMovingAverage") =>
        LET x == indCall.df[indCall.params.source]
            N == indCall.params.period
            sma == indReturn.df["sma"]
            Sum(i) == LET s[k \in 0..N] == IF k = 0 THEN 0 ELSE s[k - 1] + x[i - k + 1]
                      IN  s[N]
        IN  /\ indReturn.success
            /\ Len(sma) = Len(x)
            /\ Len(indReturn.df["rising"]) = Len(x)
            /\ IF Len(x) > N
               THEN \A i \in 1..Len(x) :
                        IF i < N THEN sma[i].null
                        ELSE ~sma[i].null /\ sma[i].num * N = Sum(i) * sma[i].den
               ELSE \A i \in 1..Len(x) :
                        sma[i].null /\ indReturn.df["rising"][i].null
            /\ (x = <<1, 2, 3, 4, 5, 6>> /\ N = 5) =>
                   /\ \A i \in 1..4 : sma[i].null
                   /\ sma[5].num = 3 * sma[5].den
                   /\ sma[6].num = 4 * sma[6].den

\* The closes 1..6 with period 5 gave the means 3 and 4 on the last two rows.
C22_Witness ==
    /\ lastOp = "SimpleMovingAverage"
    /\ indCall.df["close"] = <<1, 2, 3, 4, 5, 6>>
    /\ indCall.params.period = 5
    /\ indReturn.df["sma"][4].null
    /\ indReturn.df["sma"][5] = Num(15, 5)
    /\ indReturn.df["sma"][6] = Num(20, 5)

\* C23: on a series of more than period rows every rsi that is not null lies
\* in [0, 100] and is 100 * G / (G + L), where G and L are the averages of
\* the gains and the losses: first the mean over the first period changes,
\* then (average before * (period - 1) + value) / period; rsi is null on the
\* first period rows and where G and L are both zero.
C23_RsiRange ==
    (lastOp = "RSI" /\ Len(indCall.df[indCall.params.source]) > indCall.params.period) =>
        LET x == indCall.df[indCall.params.source]
            N == indCall.params.period
            rsi == indReturn.df["rsi"]
            up(i) == IF x[i] > x[i - 1] THEN x[i] - x[i - 1] ELSE 0
            down(i) == IF x[i] < x[i - 1] THEN x[i - 1] - x[i] ELSE 0
            \* the averages of row i, both multiplied by N to the power i - N
            power[k \in 0..Len(x)] == IF k = 0 THEN 1 ELSE N * power[k - 1]
            G[i \in 1..Len(x)] ==
                IF i = 1 THEN 0
                ELSE IF i <= N + 1 THEN G[i - 1] + up(i)
                ELSE G[i - 1] * (N - 1) + up(i) * power[i - N - 1]
            L[i \in 1..Len(x)] ==
                IF i = 1 THEN 0
                ELSE IF i <= N + 1 THEN L[i - 1] + down(i)
                ELSE L[i - 1] * (N - 1) + down(i) * power[i - N - 1]
        IN  /\ indReturn.success
            /\ Len(rsi) = Len(x)
            /\ \A i \in 1..Len(x) :
                   /\ rsi[i].null <=> (i <= N \/ G[i] + L[i] = 0)
                   /\ ~rsi[i].null =>
                          /\ rsi[i].den > 0
                          /\ 0 <= rsi[i].num
                          /\ rsi[i].num <= 100 * rsi[i].den
                          /\ rsi[i].num * (G[i] + L[i]) = 100 * G[i] * rsi[i].den

\* The closes 2, 3, 1, 3 with period 2: no rsi on the first two rows, 100/3
\* on the third and 500/7 on the fourth.
C23_Witness ==
    /\ lastOp = "RSI"
    /\ indCall.df["close"] = <<2, 3, 1, 3>>
    /\ indCall.params.period = 2
    /\ indReturn.df["rsi"][2].null
    /\ indReturn.df["rsi"][3].num * 3 = 100 * indReturn.df["rsi"][3].den
    /\ indReturn.df["rsi"][4].num * 7 = 500 * indReturn.df["rsi"][4].den

\* C24 as stated: psar_bull changes from one row to the next exactly when
\* the price crosses the SAR (the low falls below the SAR of the row before
\* or the SAR computed for the row while the trend is up, the high rises
\* above one of them while it is down); on a 20-row series of one price that
\* strictly rises and then strictly falls there is exactly one change, and
\* psar_change_date of the last row is the date of the row that changed.
C24_FlipOnCrossing ==
    (lastOp = "PSAR") =>
        LET low == indCall.df["low"]
            high == indCall.df["high"]
            date == indCall.df["date"]
            n == Len(low)
            r == indReturn.df.rows
            Crossed(a) ==
                IF r[a - 1].bull
                THEN \/ low[a] * r[a - 1].psar.den < r[a - 1].psar.num
                     \/ low[a] * r[a].sar.den < r[a].sar.num
                ELSE \/ high[a] * r[a - 1].psar.den > r[a - 1].psar.num
                     \/ high[a] * r[a].sar.den > r[a].sar.num
            flips == {a \in 2..n : r[a].bull # r[a - 1].bull}
            hill == /\ n = 20
                    /\ low = high
                    /\ \E k \in 2..(n - 1) :
                           /\ \A i \in 1..(k - 1) : low[i] < low[i + 1]
                           /\ \A i \in k..(n - 1) : low[i] > low[i + 1]
        IN  /\ \A a \in 2..n : (a \in flips) <=> Crossed(a)
            /\ hill => /\ Cardinality(flips) = 1
                       /\ \A a \in flips : indReturn.df.psar_change_date[n] = Val(date[a])

\* C24 amended: the same for the change of psar_bull; on such a 20-row
\* series there is at most one change, on a falling row, and none when the
\* fall stays above the SAR; on every frame psar_change_date of the last
\* row is the date of the latest row that changed, null when no row did, and
\* null on every other row.
C24_FlipOnCrossingAtMostOnce ==
    (lastOp = "PSAR") =>
        LET low == indCall.df["low"]
            high == indCall.df["high"]
            date == indCall.df["date"]
            n == Len(low)
            r == indReturn.df.rows
            Crossed(a) ==
                IF r[a - 1].bull
                THEN \/ low[a] * r[a - 1].psar.den < r[a - 1].psar.num
                     \/ low[a] * r[a].sar.den < r[a].sar.num
                ELSE \/ high[a] * r[a - 1].psar.den > r[a - 1].psar.num
                     \/ high[a] * r[a].sar.den > r[a].sar.num
            flips == {a \in 2..n : r[a].bull # r[a - 1].bull}
            hill == /\ n = 20
                    /\ low = high
                    /\ \E k \in 2..(n - 1) :
                           /\ \A i \in 1..(k - 1) : low[i] < low[i + 1]
                           /\ \A i \in k..(n - 1) : low[i] > low[i + 1]
        IN  /\ indReturn.success
            /\ r[1].bull
            /\ \A a \in 2..n : (a \in flips) <=> Crossed(a)
            /\ hill => /\ Cardinality(flips) <= 1
                       /\ \A a \in flips : low[a] < low[a - 1]
            /\ \A i \in 1..(n - 1) : indReturn.df.psar_change_date[i] = Null
            /\ indReturn.df.psar_change_date[n] =
                   IF flips = {} THEN Null
                   ELSE Val(date[CHOOSE a \in flips : \A b \in flips : b <= a])

\* A price rose by 10 a row for ten rows and then fell by 1 a row: the trend
\* changed on the third falling row, whose date the last row holds.
C24_Witness ==
    /\ lastOp = "PSAR"
    /\ Len(indCall.df["low"]) = 20
    /\ indCall.df["low"][10] = 190
    /\ indCall.df["low"][11] = 189
    /\ indReturn.df.rows[12].bull
    /\ ~indReturn.df.rows[13].bull
    /\ ~indReturn.df.rows[20].bull
    /\ indReturn.df.psar_change_date[20] = Val(113)

\* C25 as stated: the last row's adx_crossing_date is the date of the most
\* recent ADX crossing the scan can meet, null when there is none before the
\* first change of dmi_bull the scan meets, and it is no later than the
\* last row's dmi_crossing_date, the date of the most recent such change.
C25_AdxCrossingNoLaterThanFlip ==
    (lastOp = "ADXDMI") =>
        LET d == indCall.df
            n == Len(d["adx"])
            bull(i) == d["dmi_p"][i] > d["dmi_m"][i]
            flips == {i \in 1..(n - 1) : bull(i) # bull(n)}
            start == IF flips = {} THEN 1
                     ELSE (CHOOSE i \in flips : \A k \in flips : k <= i) + 1
            Line(i) == IF bull(n) THEN d["dmi_m"][i] ELSE d["dmi_p"][i]
            crossings == {i \in start..(n - 1) :
                              d["adx"][i] <= Line(i) /\ d["adx"][i + 1] > Line(i + 1)}
            adxDate == indReturn.df.adx_crossing_date[n]
            dmiDate == indReturn.df.dmi_crossing_date[n]
        IN  /\ dmiDate = IF flips = {} THEN Null ELSE Val(d["date"][start])
            /\ adxDate = IF crossings = {} THEN Null
                         ELSE Val(d["date"][(CHOOSE i \in crossings :
                                                \A k \in crossings : k <= i) + 1])
            /\ (~adxDate.null /\ ~dmiDate.null) => adxDate.v <= dmiDate.v

\* C25 amended: the same dates, and the ADX crossing date is later than the
\* date of the most recent change of dmi_bull; both are null on every row
\* but the last.
C25_AdxCrossingAfterFlip ==
    (lastOp = "ADXDMI") =>
        LET d == indCall.df
            n == Len(d["adx"])
            bull(i) == d["dmi_p"][i] > d["dmi_m"][i]
            flips == {i \in 1..(n - 1) : bull(i) # bull(n)}
            start == IF flips = {} THEN 1
                     ELSE (CHOOSE i \in flips : \A k \in flips : k <= i) + 1
            Line(i) == IF bull(n) THEN d["dmi_m"][i] ELSE d["dmi_p"][i]
            crossings == {i \in start..(n - 1) :
                              d["adx"][i] <= Line(i) /\ d["adx"][i + 1] > Line(i + 1)}
            adxDate == indReturn.df.adx_crossing_date[n]
            dmiDate == indReturn.df.dmi_crossing_date[n]
        IN  /\ dmiDate = IF flips = {} THEN Null ELSE Val(d["date"][start])
            /\ adxDate = IF crossings = {} THEN Null
                         ELSE Val(d["date"][(CHOOSE i \in crossings :
                                                \A k \in crossings : k <= i) + 1])
            /\ (~adxDate.null /\ ~dmiDate.null) => adxDate.v > dmiDate.v
            /\ \A i \in 1..(n - 1) : /\ indReturn.df.adx_crossing_date[i] = Null
                                     /\ indReturn.df.dmi_crossing_date[i] = Null

\* Four rows: dmi_bull changed on the second, ADX crossed on the fourth, and
\* an older crossing on the second row was not looked at.
C25_Witness ==
    /\ lastOp = "ADXDMI"
    /\ Len(indCall.df["adx"]) = 4
    /\ indCall.df["adx"] = <<0, 3, 0, 3>>
    /\ indReturn.df.dmi_crossing_date[4] = Val(102)
    /\ indReturn.df.adx_crossing_date[4] = Val(104)

(***************************************************************************)
(* Properties of the scheduler, continued                                  *)
(***************************************************************************)

\* C26: with at least one parallel process, no shutdown and workers that
\* exit, every job in the queue is eventually taken out of it by the
\* scheduling loop.
C26_QueuedJobEventuallyRemoved ==
    \A u \in {UuidStr(k) : k \in 1..MaxJobs} \cup {"f1", "f2"} :
        (parallelProcesses >= 1 /\ \E i \in 1..Len(jobQueue) : jobQueue[i].uuid = PyStr(u))
        ~> (\E i \in 1..Len(removed) : removed[i].job.uuid = PyStr(u))


\* C27: every job the scheduling loop takes out of the queue either has a
\* worker process started for it or is a job of another table than "quotes"
\* that is dropped; none is taken and then neither dispatched nor dropped.
C27_RemovedJobDispatchedOrDropped ==
    [][ (Len(removed') > Len(removed)) =>
            LET job == removed'[Len(removed')].job
            IN  \/ \E w \in children' \ children : w.job = job.uuid
                \/ ~RoutesToPipeline(job) ]_vars


\* C28: shutdown cancels the scheduling loop only at its sleep, never between
\* taking a job and starting its worker: when shutdown has drained the queue,
\* every job ever put into the queue was either still queued (and drained) or
\* had been dispatched or dropped by the loop.
C28_ShutdownAccountsForEveryJob ==
    lastOp = "shutdown" =>
        /\ schedPc \in {"cancelled", "ended"}
        /\ \A k \in 1..Len(submitted) :
               \/ \E i \in 1..Len(drained) : drained[i] = submitted[k]
               \/ \E i \in 1..Len(removed) :
                      /\ removed[i].job = submitted[k]
                      /\ removed[i].fate \in {"started", "dropped"}


\* C29: loadJobs leaves the content of the backup file unchanged, so while the
\* process runs (no shutdown yet) the file still restores the jobs this run
\* loaded at its start, with the same uuid: a restart after a crash puts them
\* into the queue a second time.
C29_LoadKeepsFileSoCrashReloads ==
    /\ [][lastOp' = "loadJobs" => backupFile' = backupFile]_vars
    /\ [](phase = "running" =>
            LET again == LoadJobsResult(backupFile, <<>>, created + 1).queue
            IN  /\ Len(again) <= Len(submitted)
                /\ \A i \in 1..Len(again) : again[i] = submitted[i])

\* The process crashed after loading a file with two entries, was started
\* again, and the load put the job with uuid "f1" into the queue again.
C29_Witness ==
    /\ restarts = 1
    /\ ~cleanStart
    /\ lastOp = "loadJobs"
    /\ loadReturn = TRUE
    /\ Len(jobQueue) = 2
    /\ jobQueue[1].uuid = PyStr("f1")
    /\ backupFile = FileJson(JArray(<<StoredEntryA, StoredEntryB>>))


\* C30 as stated: shutdown empties the queue before it writes the backup
\* file; when writing the file fails, shutdown still completes and no drained
\* job is in the queue or in the backup file.
C30_FailedWriteLosesDrained ==
    [][ (lastOp' = "shutdown" /\ writeOutcome' # "ok") =>
            /\ phase' = "stopped"
            /\ jobQueue' = <<>>
            /\ drained' = jobQueue
            /\ \A i \in 1..Len(drained') :
                   ~(/\ backupFile'.kind = "json"
                     /\ backupFile'.doc.ty = "array"
                     /\ \E j \in 1..Len(backupFile'.doc.items) :
                            backupFile'.doc.items[j] = EncodeJob(drained'[i])) ]_vars

\* C30 amended: shutdown empties the queue before it writes the backup file
\* and completes whatever the file system does.  When the write fails after
\* the file was opened, the file is left empty and holds no drained job; when
\* opening the file fails, the file keeps the content it had.
C30_FailedWriteLeavesEmptyOrOldFile ==
    [][ lastOp' = "shutdown" =>
            /\ phase' = "stopped"
            /\ jobQueue' = <<>>
            /\ drained' = jobQueue
            /\ writeOutcome' = "write_error" => backupFile' = FileEmpty
            /\ writeOutcome' = "open_error" => backupFile' = backupFile ]_vars

\* A job restored from the file was drained by a shutdown whose write failed:
\* it is in neither the queue nor the file.
C30_Witness ==
    /\ lastOp = "shutdown"
    /\ writeOutcome = "write_error"
    /\ Len(drained) >= 1
    /\ drained[1].uuid = PyStr("f1")
    /\ jobQueue = <<>>
    /\ backupFile = FileEmpty

(***************************************************************************)
(* Worker processes step by step: a worker reads the quotes of its         *)
(* security with one SELECT and writes its record with one INSERT and      *)
(* commit later; other processes run in between.  A live worker that has   *)
(* read carries what it read in the field fetched.                         *)
(***************************************************************************)
\* cursor.execute('SELECT ... FROM quotes WHERE security=%s ...'); fetchall()
WorkerFetch(w) ==
    /\ w \in children
    /\ "fetched" \notin DOMAIN w
    /\ children' = (children \ {w}) \cup
           {[pid |-> w.pid, security |-> w.security, job |-> w.job, fetched |-> quotes]}
    /\ lastOp' = "workerFetch"
    /\ UNCHANGED << parallelProcesses, jobQueue, backgroundTasks, shutdownRequest,
                    schedPc, workingOnTasks, nextPid, backupFile, phase, created,
                    restarts, submitted, removed, loadReturn, drained,
                    writeOutcome, cleanStart, lastRun >>
    /\ UNCHANGED dbvars

\* The rest of calculateMultiprocessing on the rows the worker read: the
\* indicators, the INSERT ... ON CONFLICT DO UPDATE, the commit, the exit.
WorkerCommit(w) ==
    /\ w \in children
    /\ "fetched" \in DOMAIN w
    /\ children' = children \ {w}
    /\ \E fault \in dbFaults :
           \E r \in {calculateMultiprocessing(w.security, indicatorConfig, w.fetched,
                                             indicators, fault)} :
               /\ indicators' = r.table
               /\ lastRun' = [ret |-> r.ret, step |-> r.step, wrote |-> r.wrote,
                               key |-> r.key, data |-> r.data]
    /\ lastOp' = "workerCommit"
    /\ UNCHANGED << parallelProcesses, jobQueue, backgroundTasks, shutdownRequest,
                    schedPc, workingOnTasks, nextPid, backupFile, phase, created,
                    restarts, submitted, removed, loadReturn, drained,
                    writeOutcome, cleanStart, quotes, dbFaults, indicatorConfig,
                    indicatorCalculation, lastUpdate, indCall, indReturn,
                    request, response >>

WorkersNext ==
    \/ UpdateSecurityQuotes
    \/ SchedulerWake
    \/ StartWorker
    \/ TickEnd
    \/ \E w \in children : WorkerFetch(w)
    \/ \E w \in children : WorkerCommit(w)

WorkersSpec == PipelineInit /\ [][WorkersNext]_vars

(***************************************************************************)
(* One HTTP request through the middleware                                 *)
(***************************************************************************)

AuthInit ==
    /\ parallelProcesses = 1
    /\ jobQueue = <<>>
    /\ backgroundTasks = {}
    /\ shutdownRequest = FALSE
    /\ schedPc = "created"
    /\ workingOnTasks = FALSE
    /\ children = {}
    /\ nextPid = 1
    /\ backupFile = FileMissing
    /\ phase = "init"
    /\ created = 0
    /\ restarts = 0
    /\ submitted = <<>>
    /\ removed = <<>>
    /\ lastOp = "init"
    /\ loadReturn = FALSE
    /\ drained = <<>>
    /\ writeOutcome = "none"
    /\ cleanStart = FALSE
    /\ quotes = History(1, 0)
    /\ indicators = << >>
    /\ dbFaults = {"none"}
    /\ indicatorConfig = <<EntrySmaDaily>>
    /\ indicatorCalculation = TRUE
    /\ lastRun = NoRun
    /\ lastUpdate = NoUpdate
    /\ indCall = NoCall
    /\ indReturn = NoReturn
    /\ request \in Requests
    /\ response = NoResponse

\* The application answers the request: the middleware runs, and the GraphQL
\* application executes an operation when the middleware calls call_next.
HandleRequest ==
    /\ request # NoRequest
    /\ response = NoResponse
    /\ \E r \in {authMiddleware(request, authToken)} :
           response' = [status |-> r.status, forwarded |-> r.forwarded,
                        executed |-> IF r.forwarded
                                     THEN ExecutedOperation(request)
                                     ELSE "none"]
    /\ lastOp' = "authMiddleware"
    /\ UNCHANGED << parallelProcesses, jobQueue, backgroundTasks, shutdownRequest,
                    schedPc, workingOnTasks, children, nextPid, backupFile, phase,
                    created, restarts, submitted, removed, loadReturn, drained,
                    writeOutcome, cleanStart, quotes, indicators, dbFaults,
                    indicatorConfig, indicatorCalculation, lastRun, lastUpdate,
                    indCall, indReturn, request >>

AuthNext == HandleRequest

AuthSpec == AuthInit /\ [][AuthNext]_vars

\* C31: a job submitted after shutdown has drained the queue is put into the
\* queue.  While the stopped process lives, no worker runs it, the loop does
\* not take it and the backup file does not hold it; when the process ends
\* its queue is discarded and the file is as shutdown left it.  A job enters
\* a queue only from the file or with a new uuid, and the file only from the
\* queue at a shutdown, so the job never comes back.
C31_LateJobQueuedNeverDispatchedNorPersisted ==
    /\ [][ (lastOp' = "addJob" /\ phase = "stopped") =>
               /\ Len(jobQueue') = Len(jobQueue) + 1
               /\ jobQueue'[Len(jobQueue')].uuid = PyStr(UuidStr(created')) ]_vars
    /\ [](phase = "stopped" =>
            \A i \in 1..Len(jobQueue) :
                /\ \A w \in children : w.job # jobQueue[i].uuid
                /\ \A j \in 1..Len(removed) : removed[j].job.uuid # jobQueue[i].uuid
                /\ ~(/\ backupFile.kind = "json"
                     /\ backupFile.doc.ty = "array"
                     /\ \E j \in 1..Len(backupFile.doc.items) :
                            /\ "uuid" \in DOMAIN backupFile.doc.items[j]
                            /\ backupFile.doc.items[j]["uuid"] = ToJson(jobQueue[i].uuid)))
    /\ [][ phase = "stopped" =>
               /\ backupFile' = backupFile
               /\ children' \subseteq children
               /\ phase' = "stopped" => removed' = removed
               /\ phase' # "stopped" => (jobQueue' = <<>> /\ children' = {}) ]_vars
    /\ [][ /\ \A i \in 1..Len(jobQueue') :
                  \/ \E j \in 1..Len(jobQueue) : jobQueue[j] = jobQueue'[i]
                  \/ /\ created' = created + 1
                     /\ jobQueue'[i].uuid = PyStr(UuidStr(created'))
                  \/ /\ lastOp' = "loadJobs"
                     /\ \E j \in 1..Len(backupFile.doc.items) :
                            backupFile.doc.items[j]["uuid"] = ToJson(jobQueue'[i].uuid)
           /\ backupFile' # backupFile =>
                  /\ lastOp' = "shutdown"
                  /\ backupFile' \in {FileEmpty, FileJson(JArray(DumpJobs(jobQueue)))} ]_vars

\* After a shutdown that wrote the file, a job was submitted and waits in the
\* queue of the stopped process; the file does not hold it.
C31_Witness ==
    /\ phase = "stopped"
    /\ lastOp = "addJob"
    /\ writeOutcome = "ok"
    /\ Len(jobQueue) >= 1
    /\ backupFile = FileJson(JArray(DumpJobs(drained)))
    /\ \A i \in 1..Len(drained) : drained[i] # jobQueue[1]


\* C32: the scheduler starts a worker for the job at the head of the queue
\* whatever securities the live workers run for, and a worker's write leaves,
\* in the row of its key, the values of its own record, whatever another
\* worker for the same security wrote before: the last commit wins.
C32_LastCommitWins ==
    /\ [][ lastOp' = "start" =>
               \E w \in children' \ children :
                   /\ w.security = Head(jobQueue).id1
                   /\ children' = children \cup {w} ]_vars
    /\ [][ (lastOp' = "workerCommit" /\ lastRun'.wrote) =>
               /\ lastRun'.key \in DOMAIN indicators'
               /\ \A c \in DOMAIN lastRun'.data :
                      indicators'[lastRun'.key][c] = lastRun'.data[c] ]_vars

\* Two workers for security 1 were live after their reads, which saw
\* different quotes; one has committed over a row that was there and the
\* other, still live, holds the quotes as they are now.
C32_Witness ==
    /\ lastOp = "workerCommit"
    /\ lastRun.wrote
    /\ lastRun.key[1] = 1
    /\ \E w \in children :
           /\ w.security = PyInt(1)
           /\ "fetched" \in DOMAIN w
           /\ w.fetched = quotes
           /\ calculateMultiprocessing(w.security, indicatorConfig, w.fetched,
                                       indicators, "none").key = lastRun.key
           /\ calculateMultiprocessing(w.security, indicatorConfig, w.fetched,
                                       indicators, "none").data # lastRun.data


(***************************************************************************)
(* Properties of the worker pipeline, continued                            *)
(***************************************************************************)
\* C33: the entries of the configuration run in file order.  When the entries
\* before the n-th have run and the n-th indicator succeeds on the frame of
\* its timeframe as they left it, the run goes on with that frame replaced:
\* the frame keeps every column it had, with the same values, and has the
\* entry's outputs under their stored names, and the frames of the other two
\* timeframes are as they were.  So an entry reads what the entries before it
\* stored, and not what the entries after it will store.
C33_EntriesInOrderPerTimeframe ==
    (lastOp = "workerExit" /\ lastRun.step \notin {"connect", "select", "skipped"}) =>
        LET dfDaily == DataFrame(FetchQuotes(quotes, PyInt(1)))
            dfs == <<dfDaily, resampleDataFrame(dfDaily, 1), resampleDataFrame(dfDaily, 2)>>
            Upto(n) == RunEntries(dfs, SubSeq(indicatorConfig, 1, n))
        IN  \A n \in 1..Len(indicatorConfig) :
                LET obj == indicatorConfig[n]
                    before == Upto(n - 1)
                    after == Upto(n)
                IN  (/\ before.status = "ok"
                     /\ ~IntervalRaises(obj.interval)
                     /\ ~CallRaises(obj.indicator, obj.parameters)
                     /\ CallIndicator(obj.indicator,
                                      before.dfs[intervalFromStr(obj.interval)],
                                      parseParameters(obj.parameters)).success)
                    => LET t == intervalFromStr(obj.interval)
                       IN  /\ after.status = "ok"
                           /\ \A u \in (1..3) \ {t} : after.dfs[u] = before.dfs[u]
                           /\ \A c \in DOMAIN before.dfs[t].cols :
                                  /\ c \in DOMAIN after.dfs[t].cols
                                  /\ after.dfs[t].cols[c] = before.dfs[t].cols[c]
                           /\ \A k \in DOMAIN obj.mapping :
                                  obj.mapping[k] \in DOMAIN after.dfs[t].cols
                           /\ (obj.indicator = "Slope") =>
                                  after.dfs[t].cols[obj.mapping["slope"]].last
                                      = Computed(before.dfs[t], obj.parameters.source.s)

\* A run with the configuration SMA daily, SMA weekly, Slope of the stored
\* daily SMA wrote a record whose slope was computed from the sma3_d column;
\* with the Slope entry first the run fails.
C33_Witness ==
    /\ lastOp = "workerExit"
    /\ lastRun.wrote
    /\ indicatorConfig = <<EntrySmaDaily, EntrySmaWeekly, EntrySlope>>
    /\ {"sma3_d", "sma3_w", "slope_d"} \subseteq DOMAIN lastRun.data
    /\ lastRun.data["slope_d"] =
           Val(Cardinality(DOMAIN quotes) * 100 + lastRun.data["sma3_d"].v)
    /\ LET dfDaily == DataFrame(FetchQuotes(quotes, PyInt(1)))
       IN  RunEntries(<<dfDaily, resampleDataFrame(dfDaily, 1),
                        resampleDataFrame(dfDaily, 2)>>,
                      <<EntrySlope, EntrySmaDaily, EntrySmaWeekly>>).status = "failed"


\* C34: after a successful indicator call, dropping the returned names the
\* mapping lacks and renaming the others leaves, besides the columns the
\* frame had before the call, only stored names of the mapping; the merged
\* record is made of these columns.
C34_OnlyMappedNamesRemain ==
    (lastOp = "applyIndicator" /\ ~indReturn.raised /\ indReturn.success) =>
        LET keys == indReturn.keys
            stored == <<"s1", "s2", "s3", "s4", "s5", "s6">>
        IN  \A S \in SUBSET (1..Len(keys)) :
                LET mapping == [k \in {keys[i] : i \in S} |->
                                   stored[CHOOSE i \in S : keys[i] = k]]
                IN  (Unmapped(keys, mapping) \subseteq DOMAIN indReturn.df.cols) =>
                        DOMAIN LastRow(Rename(DropColumns(indReturn.df,
                                                          Unmapped(keys, mapping)),
                                              mapping))
                            \subseteq (DOMAIN LastRow(indCall.df))
                                          \cup {mapping[k] : k \in DOMAIN mapping}


\* C35: whether an indicator function reports success or failure, the columns
\* of the frame it returns are the columns of the frame it was given and the
\* names it returns; no working column is left.
C35_NoWorkingColumnLeft ==
    (lastOp = "applyIndicator" /\ ~indReturn.raised) =>
        DOMAIN indReturn.df.cols =
            DOMAIN indCall.df.cols \cup {indReturn.keys[i] : i \in 1..Len(indReturn.keys)}


(***************************************************************************)
(* Properties of the indicator series, continued                           *)
(***************************************************************************)
\* C36: on a row a where the PSAR trend changes, psar is the extreme point of
\* the row before, AF is the initial step again, and EP is the low of row a
\* when the trend turned down, the high of row a when it turned up.
C36_FlipResets ==
    (lastOp = "PSAR") =>
        LET low == indCall.df["low"]
            high == indCall.df["high"]
            r == indReturn.df.rows
        IN  \A a \in 2..Len(low) :
                (r[a].bull # r[a - 1].bull) =>
                    /\ r[a].psar = Num(r[a - 1].EP, 1)
                    /\ r[a].AF = indCall.params.af.num
                    /\ r[a].EP = IF r[a].bull THEN high[a] ELSE low[a]


\* C37: on every row of PSAR the acceleration factor is at least the initial
\* step and at most the maximum, in a rising and in a falling trend, and it
\* is one step more than on the row before only on a row that makes a new
\* extreme, and otherwise the same or the initial step.
C37_AccelerationBounded ==
    (lastOp = "PSAR") =>
        LET low == indCall.df["low"]
            high == indCall.df["high"]
            af == indCall.params.af
            max == indCall.params.max
            r == indReturn.df.rows
        IN  \A a \in 1..Len(low) :
                /\ af.num <= r[a].AF
                /\ r[a].AF <= max.num
                /\ a > 1 =>
                       \/ r[a].AF = r[a - 1].AF
                       \/ r[a].AF = af.num
                       \/ /\ r[a].AF = r[a - 1].AF + af.num
                          /\ r[a].bull = r[a - 1].bull
                          /\ IF r[a].bull THEN high[a] > r[a - 1].EP
                                          ELSE low[a] < r[a - 1].EP


\* C38 as stated: the recorded ADX crossing is a pair of rows where ADX is
\* above the dominant DMI line (dmi_p when dmi_p > dmi_m on the older row,
\* else dmi_m) on the older row and below it on the newer row, and the
\* recorded date is the date of the newer row.
C38_AdxCrossesBelowDominant ==
    (lastOp = "ADXDMI" /\ ~indReturn.df.adx_crossing_date[Len(indCall.df["adx"])].null) =>
        LET d == indCall.df
            n == Len(d["adx"])
            Dominant(i, j) == IF d["dmi_p"][i] > d["dmi_m"][i]
                              THEN d["dmi_p"][j] ELSE d["dmi_m"][j]
        IN  \E i \in 1..(n - 1) :
                /\ indReturn.df.adx_crossing_date[n] = Val(d["date"][i + 1])
                /\ d["adx"][i] > Dominant(i, i)
                /\ d["adx"][i + 1] < Dominant(i, i + 1)

\* C38 amended: the recorded ADX crossing is a pair of rows where ADX is at
\* or below the other DMI line (dmi_m when dmi_p > dmi_m on the older row,
\* else dmi_p) on the older row and above it on the newer row, and the
\* recorded date is the date of the newer row.
C38_AdxCrossesAboveOther ==
    (lastOp = "ADXDMI" /\ ~indReturn.df.adx_crossing_date[Len(indCall.df["adx"])].null) =>
        LET d == indCall.df
            n == Len(d["adx"])
            Other(i, j) == IF d["dmi_p"][i] > d["dmi_m"][i]
                           THEN d["dmi_m"][j] ELSE d["dmi_p"][j]
        IN  \E i \in 1..(n - 1) :
                /\ indReturn.df.adx_crossing_date[n] = Val(d["date"][i + 1])
                /\ d["adx"][i] <= Other(i, i)
                /\ d["adx"][i + 1] > Other(i, i + 1)

\* Three rows with dmi_p above dmi_m; ADX was on the lower line on the second
\* row and is above both lines on the third, whose date is recorded, while
\* the fall of ADX below the upper line on the second row is not.
C38_Witness ==
    /\ lastOp = "ADXDMI"
    /\ indCall.df["dmi_p"] = <<2, 2, 2>>
    /\ indCall.df["dmi_m"] = <<1, 1, 1>>
    /\ indCall.df["adx"] = <<3, 0, 3>>
    /\ indReturn.df.adx_crossing_date[3] = Val(103)

(***************************************************************************)
(* Properties of the authentication middleware                             *)
(***************************************************************************)

\* C39: every mutation the GraphQL application executes arrived with an
\* x-auth-token header equal to the server's token, and a POST whose query
\* document makes the application execute a mutation, sent without that
\* token, is answered 401 and not forwarded, whatever lexemes precede the
\* mutation keyword in the query string.
C39_MutationsNeedToken ==
    lastOp = "authMiddleware" =>
        /\ response.executed = "mutation" => request.token = authToken
        /\ ( /\ request.method = "POST"
             /\ request.token # authToken
             /\ ExecutedOperation(request) = "mutation" )
           => response.status = 401 /\ ~response.forwarded

====
